---- MODULE Spec2Model ----
(***************************************************************************)
(* keti-tsn-cli: the schema tables (SID tree, type table) built by         *)
(* loadYangInputs from a directory of .sid / .yang files, their cache      *)
(* file, the SID resolver and the Delta-SID key rules of tsc2cbor.         *)
(*                                                                         *)
(* Representation.  A path segment is the tuple of its colon separated     *)
(* parts ("m:a" is <<"m","a">>, "a" is <<"a">>); a path is the tuple of    *)
(* its slash separated segments.  A JavaScript Map is the sequence of its  *)
(* <<key, value>> entries in insertion order; a Set and an Array are       *)
(* sequences.                                                              *)
(***************************************************************************)
EXTENDS Integers, Sequences, FiniteSets, TLC

\* ------------------------------------------------------------------ bounds
\* SIDs of the modelled SID files range over 1..MaxSid.
MaxSid == 3
\* Items in the SID files of one directory (over all its files).
MaxItems == 3
\* The clock (mtimeMs, Date.now()) ranges over 0..MaxTime.
MaxTime == 2
\* loadYangInputs calls one process makes in a run.
MaxCalls == 2
\* Segments of an instance-identifier given to the encoder.
MaxDepth == 2
\* Calls made on the returned SID tree in a run.
MaxLookups == 2
\* Lookups made in the returned SID tree in a run.
MaxReads == 3

\* null (a node without parent, a failed lookup).
Null == -1

\* ------------------------------------------------------------ JS Map, Array
MapHas(m, k) == \E i \in 1..Len(m) : m[i][1] = k

MapIdx(m, k) == CHOOSE i \in 1..Len(m) : m[i][1] = k

MapGet(m, k) == m[MapIdx(m, k)][2]

\* Map.prototype.set: an existing key keeps its place, a new key is appended.
MapSet(m, k, v) ==
  IF MapHas(m, k) THEN [m EXCEPT ![MapIdx(m, k)] = <<k, v>>] ELSE Append(m, <<k, v>>)

RECURSIVE MapSetAll(_, _)
\* for (const [k, v] of src) dst.set(k, v); also new Map(entries) from <<>>.
MapSetAll(dst, src) ==
  IF src = <<>> THEN dst
  ELSE MapSetAll(MapSet(dst, src[1][1], src[1][2]), Tail(src))

SeqHas(s, x) == \E i \in 1..Len(s) : s[i] = x

RECURSIVE Dedup(_, _)
\* [...new Set(array)]: first occurrences, in order (acc is the result so far).
Dedup(acc, s) ==
  IF s = <<>> THEN acc
  ELSE Dedup(IF SeqHas(acc, s[1]) THEN acc ELSE Append(acc, s[1]), Tail(s))

\* ------------------------------------------------------------------- paths
\* segment.includes(':') ? segment.split(':')[1] : segment
StripSeg(seg) == IF Len(seg) > 1 THEN <<seg[2]>> ELSE seg

stripPrefixes(path) == [i \in 1..Len(path) |-> StripSeg(path[i])]

\* nodePath.startsWith('identity:') || nodePath.startsWith('feature:')
IsSynthetic(path) ==
  /\ Len(path) > 0
  /\ Len(path[1]) > 1
  /\ path[1][1] \in {"identity", "feature"}

\* ------------------------------------------------------ SID file -> SID tree
EmptyTree ==
  [pathToSid |-> <<>>, sidToPath |-> <<>>, prefixedPathToSid |-> <<>>,
   sidToPrefixedPath |-> <<>>, pathToPrefixed |-> <<>>, identityToSid |-> <<>>,
   sidToIdentity |-> <<>>, nodeInfo |-> <<>>, leafToPaths |-> <<>>,
   aliasesAugmented |-> FALSE]

\* The switch on the namespace: the stripped path of an item.
ItemYangPath(item) ==
  CASE item.namespace = "module" -> item.identifier
    [] item.namespace = "identity" -> << <<"identity">> \o StripSeg(item.identifier[1]) >>
    [] item.namespace = "feature" -> << <<"feature">> \o StripSeg(item.identifier[1]) >>
    [] OTHER -> stripPrefixes(item.identifier)

\* The switch on the namespace: the prefixed path of an item (module: null).
ItemPrefixedPath(item) ==
  CASE item.namespace = "identity" -> << <<"identity">> \o item.identifier[1] >>
    [] item.namespace = "feature" -> << <<"feature">> \o item.identifier[1] >>
    [] OTHER -> item.identifier

processSidItem(item, tree) ==
  LET sid == item.sid
      yangPath == ItemYangPath(item)
      prefixedPath == ItemPrefixedPath(item)
      hasPrefixed == item.namespace # "module"
      identityName == StripSeg(item.identifier[1])
      leaf == yangPath[Len(yangPath)]
      t1 == IF item.namespace = "identity"
            THEN [tree EXCEPT
                    !.identityToSid =
                        MapSet(MapSet(@, identityName, sid), item.identifier[1], sid),
                    !.sidToIdentity = MapSet(@, sid, identityName)]
            ELSE tree
      t2 == IF item.namespace = "data" /\ Len(yangPath) > 0
            THEN [t1 EXCEPT !.leafToPaths =
                    IF MapHas(@, leaf)
                    THEN MapSet(@, leaf, Append(MapGet(@, leaf), yangPath))
                    ELSE MapSet(@, leaf, <<yangPath>>)]
            ELSE t1
      t3 == [t2 EXCEPT !.pathToSid = MapSet(@, yangPath, sid),
                       !.sidToPath = MapSet(@, sid, yangPath)]
  IN  IF hasPrefixed
      THEN [t3 EXCEPT !.prefixedPathToSid = MapSet(@, prefixedPath, sid),
                      !.sidToPrefixedPath = MapSet(@, sid, prefixedPath),
                      !.pathToPrefixed = MapSet(@, yangPath, prefixedPath)]
      ELSE t3

RECURSIVE ProcessItems(_, _)
\* items.forEach(item => processSidItem(item, tree))
ProcessItems(items, tree) ==
  IF items = <<>> THEN tree
  ELSE ProcessItems(Tail(items), processSidItem(items[1], tree))

buildSidTree(items) == ProcessItems(items, EmptyTree)

\* ------------------------------------------------------------ merge (Step 2)
RECURSIVE MergeLeafToPaths(_, _)
MergeLeafToPaths(dst, src) ==
  IF src = <<>> THEN dst
  ELSE LET leaf == src[1][1]
           existing == IF MapHas(dst, leaf) THEN MapGet(dst, leaf) ELSE <<>>
       IN  MergeLeafToPaths(MapSet(dst, leaf, Dedup(<<>>, existing \o src[1][2])),
                            Tail(src))

MergeTree(sidTree, tree) ==
  [sidTree EXCEPT
     !.pathToSid = MapSetAll(@, tree.pathToSid),
     !.sidToPath = MapSetAll(@, tree.sidToPath),
     !.prefixedPathToSid = MapSetAll(@, tree.prefixedPathToSid),
     !.sidToPrefixedPath = MapSetAll(@, tree.sidToPrefixedPath),
     !.pathToPrefixed = MapSetAll(@, tree.pathToPrefixed),
     !.identityToSid = MapSetAll(@, tree.identityToSid),
     !.sidToIdentity = MapSetAll(@, tree.sidToIdentity),
     !.leafToPaths = MergeLeafToPaths(@, tree.leafToPaths)]

RECURSIVE MergeSidTrees(_, _)
\* for (const tree of sidTrees) { ... }
MergeSidTrees(sidTree, sidTrees) ==
  IF sidTrees = <<>> THEN sidTree
  ELSE MergeSidTrees(MergeTree(sidTree, sidTrees[1]), Tail(sidTrees))

\* ------------------------------------------- parent relationships (Step 3)
RECURSIVE FindParent_StopsAboveRoot(_, _, _)
\* The ancestor loop with the bound i > 1: the first segment is never looked up.
FindParent_StopsAboveRoot(parts, pathToSid, i) ==
  IF i <= 1 THEN Null
  ELSE IF MapHas(pathToSid, SubSeq(parts, 1, i))
       THEN MapGet(pathToSid, SubSeq(parts, 1, i))
       ELSE FindParent_StopsAboveRoot(parts, pathToSid, i - 1)

RECURSIVE FindParent(_, _, _)
\* for (let i = parts.length - 1; i > 0; i--): the nearest ancestor path mapped.
FindParent(parts, pathToSid, i) ==
  IF i <= 0 THEN Null
  ELSE IF MapHas(pathToSid, SubSeq(parts, 1, i))
       THEN MapGet(pathToSid, SubSeq(parts, 1, i))
       ELSE FindParent(parts, pathToSid, i - 1)

NodeInfoOf(sidTree, nodePath, sid) ==
  LET parent == FindParent(nodePath, sidTree.pathToSid, Len(nodePath) - 1)
  IN  [sid |-> sid,
       parent |-> parent,
       deltaSid |-> IF parent # Null THEN sid - parent ELSE sid,
       depth |-> Len(nodePath),
       prefixedPath |->
         IF MapHas(sidTree.pathToPrefixed, nodePath)
         THEN MapGet(sidTree.pathToPrefixed, nodePath)
         ELSE IF MapHas(sidTree.sidToPrefixedPath, sid)
              THEN MapGet(sidTree.sidToPrefixedPath, sid)
              ELSE nodePath]

RECURSIVE RecalcFrom(_, _)
\* for (const [nodePath, sid] of sidTree.pathToSid) { ... nodeInfo.set(...) }
RecalcFrom(sidTree, i) ==
  IF i > Len(sidTree.pathToSid) THEN sidTree
  ELSE LET nodePath == sidTree.pathToSid[i][1]
           sid == sidTree.pathToSid[i][2]
       IN  IF IsSynthetic(nodePath) THEN RecalcFrom(sidTree, i + 1)
           ELSE RecalcFrom(
                  [sidTree EXCEPT !.nodeInfo =
                     MapSet(@, nodePath, NodeInfoOf(sidTree, nodePath, sid))],
                  i + 1)

RecalcParents(sidTree) == RecalcFrom(sidTree, 1)

\* --------------------------------------------- alias augmentation (Step 7)
\* normalize(name): the bare name of a possibly prefixed name.
normalize(name) == StripSeg(name)

\* choiceNameSet / caseNameSet: every name together with its bare form.
NameSet(names) ==
  {names[i] : i \in 1..Len(names)} \cup {normalize(names[i]) : i \in 1..Len(names)}

RECURSIVE DropChoiceCase(_, _)
\* The first loop of buildAlias: segments that name no choice and no case.
DropChoiceCase(segments, skip) ==
  IF segments = <<>> THEN <<>>
  ELSE IF segments[1] \in skip \/ normalize(segments[1]) \in skip
       THEN DropChoiceCase(Tail(segments), skip)
       ELSE <<segments[1]>> \o DropChoiceCase(Tail(segments), skip)

RECURSIVE DedupConsecutive(_, _)
\* The second loop of buildAlias: consecutive duplicates (by bare name) removed.
DedupConsecutive(deduped, aliasSegments) ==
  IF aliasSegments = <<>> THEN deduped
  ELSE LET segment == aliasSegments[1]
           last == deduped[Len(deduped)]
       IN  IF Len(deduped) > 0
              /\ (last = segment \/ normalize(last) = normalize(segment))
           THEN DedupConsecutive(deduped, Tail(aliasSegments))
           ELSE DedupConsecutive(Append(deduped, segment), Tail(aliasSegments))

\* buildAlias(prefixedPath): the alias path, or <<>> for null.
buildAlias(prefixedPath, choiceNameSet, caseNameSet) ==
  LET aliasPath ==
        DedupConsecutive(<<>>,
          DropChoiceCase(prefixedPath, choiceNameSet \cup caseNameSet))
  IN  IF aliasPath # <<>> /\ aliasPath # prefixedPath THEN aliasPath ELSE <<>>

RECURSIVE AugmentFrom(_, _, _, _)
\* for (const [sid, canonicalPrefixed] of sidTree.sidToPrefixedPath) { ... }
AugmentFrom(sidTree, i, choiceNameSet, caseNameSet) ==
  IF i > Len(sidTree.sidToPrefixedPath) THEN sidTree
  ELSE
    LET sid == sidTree.sidToPrefixedPath[i][1]
        aliasPrefixed ==
          buildAlias(sidTree.sidToPrefixedPath[i][2], choiceNameSet, caseNameSet)
        aliasStripped == stripPrefixes(aliasPrefixed)
        t1 == IF MapHas(sidTree.prefixedPathToSid, aliasPrefixed) THEN sidTree
              ELSE [sidTree EXCEPT !.prefixedPathToSid = MapSet(@, aliasPrefixed, sid)]
        t2 == IF MapHas(t1.pathToSid, aliasStripped) THEN t1
              ELSE [t1 EXCEPT !.pathToSid = MapSet(@, aliasStripped, sid),
                              !.pathToPrefixed = MapSet(@, aliasStripped, aliasPrefixed)]
    IN  IF aliasPrefixed = <<>>
        THEN AugmentFrom(sidTree, i + 1, choiceNameSet, caseNameSet)
        ELSE AugmentFrom(t2, i + 1, choiceNameSet, caseNameSet)

\* The augmentation without the check of the sentinel.
augmentSidTreeWithAliases_NoSentinelCheck(sidTree, choiceNames, caseNames) ==
  [AugmentFrom(sidTree, 1, NameSet(choiceNames), NameSet(caseNames))
     EXCEPT !.aliasesAugmented = TRUE]

augmentSidTreeWithAliases(sidTree, choiceNames, caseNames) ==
  IF sidTree.aliasesAugmented THEN sidTree
  ELSE [AugmentFrom(sidTree, 1, NameSet(choiceNames), NameSet(caseNames))
          EXCEPT !.aliasesAugmented = TRUE]

\* ------------------------------------------------------ type table (Step 5, 6)
EmptyTypeTable ==
  [types |-> <<>>, identities |-> <<>>, typedefs |-> <<>>,
   choiceNames |-> <<>>, caseNames |-> <<>>, nodeOrders |-> <<>>]

\* Set.prototype.add of every name, in order.
SetAddAll(set, names) == Dedup(set, names)

MergeTable(typeTable, table) ==
  [types |-> MapSetAll(typeTable.types, table.types),
   identities |-> MapSetAll(typeTable.identities, table.identities),
   typedefs |-> MapSetAll(typeTable.typedefs, table.typedefs),
   choiceNames |-> SetAddAll(typeTable.choiceNames, table.choiceNames),
   caseNames |-> SetAddAll(typeTable.caseNames, table.caseNames),
   nodeOrders |-> MapSetAll(typeTable.nodeOrders, table.nodeOrders)]

RECURSIVE MergeTypeTables(_, _)
MergeTypeTables(typeTable, typeTables) ==
  IF typeTables = <<>> THEN typeTable
  ELSE MergeTypeTables(MergeTable(typeTable, typeTables[1]), Tail(typeTables))

\* No enum mapping / no original typedef on a TypeInfo.
NoEnum == [none |-> TRUE]
NoOriginal == <<>>

\* A typedef name is <<vendor prefix, base name>> or <<base name>>:
\* name.startsWith('velocitysp-') / name.startsWith('mchp-').
vendorPrefixes == {"velocitysp-", "mchp-"}

HasVendorPrefix(name) == Len(name) > 1 /\ name[1] \in vendorPrefixes

RECURSIVE MergeVendorFrom(_, _)
\* Step 6: st is [typedefs, merged]; typedefs is iterated while base entries are reset.
MergeVendorFrom(st, i) ==
  IF i > Len(st.typedefs) THEN st
  ELSE
    LET name == st.typedefs[i][1]
        typedef == st.typedefs[i][2]
        baseName == <<name[2]>>
        baseTypedef == MapGet(st.typedefs, baseName)
        mergedEnum ==
          [nameToValue |->
             MapSetAll(MapSetAll(<<>>, baseTypedef.enum.nameToValue),
                       typedef.enum.nameToValue),
           valueToName |->
             MapSetAll(MapSetAll(<<>>, baseTypedef.enum.valueToName),
                       typedef.enum.valueToName)]
    IN  IF /\ HasVendorPrefix(name)
           /\ MapHas(st.typedefs, baseName)
           /\ baseTypedef.enum # NoEnum
           /\ typedef.enum # NoEnum
        THEN MergeVendorFrom(
               [typedefs |->
                  MapSet(st.typedefs, baseName,
                         [typedef EXCEPT !.enum = mergedEnum, !.original = baseName]),
                merged |-> SetAddAll(st.merged, <<baseName>>)],
               i + 1)
        ELSE MergeVendorFrom(st, i + 1)

RECURSIVE UpdateLeafTypesFrom(_, _, _, _)
\* "Update leaf types that use merged typedefs".
UpdateLeafTypesFrom(types, i, typedefs, mergedTypedefs) ==
  IF i > Len(types) THEN types
  ELSE
    LET path == types[i][1]
        typeInfo == types[i][2]
    IN  IF typeInfo.original # NoOriginal /\ SeqHas(mergedTypedefs, typeInfo.original)
        THEN UpdateLeafTypesFrom(
               MapSet(types, path,
                      [MapGet(typedefs, typeInfo.original)
                         EXCEPT !.original = typeInfo.original]),
               i + 1, typedefs, mergedTypedefs)
        ELSE UpdateLeafTypesFrom(types, i + 1, typedefs, mergedTypedefs)

MergeVendorTypedefs(typeTable) ==
  LET st == MergeVendorFrom([typedefs |-> typeTable.typedefs, merged |-> <<>>], 1)
  IN  [typeTable EXCEPT
         !.typedefs = st.typedefs,
         !.types = UpdateLeafTypesFrom(typeTable.types, 1, st.typedefs, st.merged)]

\* ------------------------------------------------------------ cache format
\* Cache version - increment when cache format changes
CACHE_VERSION == 1

serializeTypeInfo(typeInfo) ==
  IF typeInfo.enum # NoEnum
  THEN [typeInfo EXCEPT !.enum = [nameToValue |-> typeInfo.enum.nameToValue,
                                  valueToName |-> typeInfo.enum.valueToName]]
  ELSE typeInfo

\* bases: identity.bases ? [...identity.bases] : []
serializeIdentity(identity) ==
  [identity EXCEPT !.bases = IF identity.hasBases THEN identity.bases ELSE <<>>,
                   !.hasBases = TRUE]

serializeTypeInfos(m) == [i \in 1..Len(m) |-> <<m[i][1], serializeTypeInfo(m[i][2])>>]

serializeIdentities(m) == [i \in 1..Len(m) |-> <<m[i][1], serializeIdentity(m[i][2])>>]

\* The JSON document of the cache file: the Maps and Sets as arrays of entries.
serializeData(sidTree, typeTable, timestamp) ==
  [version |-> CACHE_VERSION,
   timestamp |-> timestamp,
   sidTree |->
     [pathToSid |-> sidTree.pathToSid,
      sidToPath |-> sidTree.sidToPath,
      prefixedPathToSid |-> sidTree.prefixedPathToSid,
      sidToPrefixedPath |-> sidTree.sidToPrefixedPath,
      pathToPrefixed |-> sidTree.pathToPrefixed,
      identityToSid |-> sidTree.identityToSid,
      sidToIdentity |-> sidTree.sidToIdentity,
      nodeInfo |-> sidTree.nodeInfo,
      leafToPaths |-> sidTree.leafToPaths],
   typeTable |->
     [types |-> serializeTypeInfos(typeTable.types),
      identities |-> serializeIdentities(typeTable.identities),
      typedefs |-> serializeTypeInfos(typeTable.typedefs),
      choiceNames |-> typeTable.choiceNames,
      caseNames |-> typeTable.caseNames,
      nodeOrders |-> typeTable.nodeOrders]]

deserializeTypeInfo(typeInfo) ==
  IF typeInfo.enum # NoEnum
  THEN [typeInfo EXCEPT !.enum = [nameToValue |-> MapSetAll(<<>>, typeInfo.enum.nameToValue),
                                  valueToName |-> MapSetAll(<<>>, typeInfo.enum.valueToName)]]
  ELSE typeInfo

\* bases: identity.bases ? new Set(identity.bases) : new Set()
deserializeIdentity(identity) ==
  [identity EXCEPT !.bases = IF identity.hasBases THEN Dedup(<<>>, identity.bases) ELSE <<>>,
                   !.hasBases = TRUE]

deserializeTypeInfos(m) == [i \in 1..Len(m) |-> <<m[i][1], deserializeTypeInfo(m[i][2])>>]

deserializeIdentities(m) == [i \in 1..Len(m) |-> <<m[i][1], deserializeIdentity(m[i][2])>>]

\* The version check that accepts the version after the current one as well.
VersionMatches_OrNext(data) == data.version >= CACHE_VERSION

\* data.version !== CACHE_VERSION throws 'Cache version mismatch'.
VersionMatches(data) == data.version = CACHE_VERSION

\* The tables deserializeData builds: new Map(entries) per field; the objects it
\* builds have the nine Maps and no other field (aliasesAugmented: absent).
deserializeData(data) ==
  [sidTree |->
     [pathToSid |-> MapSetAll(<<>>, data.sidTree.pathToSid),
      sidToPath |-> MapSetAll(<<>>, data.sidTree.sidToPath),
      prefixedPathToSid |-> MapSetAll(<<>>, data.sidTree.prefixedPathToSid),
      sidToPrefixedPath |-> MapSetAll(<<>>, data.sidTree.sidToPrefixedPath),
      pathToPrefixed |-> MapSetAll(<<>>, data.sidTree.pathToPrefixed),
      identityToSid |-> MapSetAll(<<>>, data.sidTree.identityToSid),
      sidToIdentity |-> MapSetAll(<<>>, data.sidTree.sidToIdentity),
      nodeInfo |-> MapSetAll(<<>>, data.sidTree.nodeInfo),
      leafToPaths |-> MapSetAll(<<>>, data.sidTree.leafToPaths),
      aliasesAugmented |-> FALSE],
   typeTable |->
     [types |-> MapSetAll(<<>>, deserializeTypeInfos(data.typeTable.types)),
      identities |->
        MapSetAll(<<>>, deserializeIdentities(data.typeTable.identities)),
      typedefs |-> MapSetAll(<<>>, deserializeTypeInfos(data.typeTable.typedefs)),
      choiceNames |-> Dedup(<<>>, data.typeTable.choiceNames),
      caseNames |-> Dedup(<<>>, data.typeTable.caseNames),
      nodeOrders |-> MapSetAll(<<>>, data.typeTable.nodeOrders)]]

\* ----------------------------------------------- the tables of a directory
\* Lines 309-366: every SID file parsed, the trees merged, the parents computed.
BuildMergedSidTree(sidFiles) ==
  RecalcParents(
    MergeSidTrees(EmptyTree, [i \in 1..Len(sidFiles) |-> buildSidTree(sidFiles[i].items)]))

\* Lines 388-460: the type tables merged, vendor typedefs merged, aliases added.
BuildTables(sidTree, yangFiles) ==
  LET typeTable ==
        MergeVendorTypedefs(
          MergeTypeTables(EmptyTypeTable, [i \in 1..Len(yangFiles) |-> yangFiles[i].table]))
  IN  [sidTree |-> augmentSidTreeWithAliases(sidTree, typeTable.choiceNames,
                                             typeTable.caseNames),
       typeTable |-> typeTable]

\* --------------------------------------------------------- identity lookup
\* resolveIdentityToSid(identityName, sidTree): the prefix is removed first.
resolveIdentityToSid(identityName, tree) ==
  LET cleanName == StripSeg(identityName)
  IN  IF MapHas(tree.identityToSid, cleanName) /\ MapGet(tree.identityToSid, cleanName) # 0
      THEN MapGet(tree.identityToSid, cleanName)
      ELSE Null

\* resolveSidToIdentity(sid, sidTree): the name, or <<>> for null.
resolveSidToIdentity(sid, tree) ==
  IF MapHas(tree.sidToIdentity, sid) THEN MapGet(tree.sidToIdentity, sid) ELSE <<>>

\* ------------------------------------------------------------ path -> SID
RECURSIVE CommonPrefix(_, _)
\* Lines 189-196: the length of the common prefix of the segments.
CommonPrefix(contextSegments, candidateSegments) ==
  IF contextSegments = <<>> \/ candidateSegments = <<>>
       \/ contextSegments[1] # candidateSegments[1]
  THEN 0
  ELSE 1 + CommonPrefix(Tail(contextSegments), Tail(candidateSegments))

RECURSIVE BestMatch_LastOfTies(_, _, _, _)
\* The loop with score >= highestScore: the last candidate of the highest score.
BestMatch_LastOfTies(candidatePaths, contextSegments, bestMatch, highestScore) ==
  IF candidatePaths = <<>> THEN bestMatch
  ELSE LET score == CommonPrefix(contextSegments, candidatePaths[1])
       IN  IF score >= highestScore
           THEN BestMatch_LastOfTies(Tail(candidatePaths), contextSegments,
                                     candidatePaths[1], score)
           ELSE BestMatch_LastOfTies(Tail(candidatePaths), contextSegments,
                                     bestMatch, highestScore)

RECURSIVE BestMatch(_, _, _, _)
\* Lines 186-202: the first candidate of the highest score.
BestMatch(candidatePaths, contextSegments, bestMatch, highestScore) ==
  IF candidatePaths = <<>> THEN bestMatch
  ELSE LET score == CommonPrefix(contextSegments, candidatePaths[1])
       IN  IF score > highestScore
           THEN BestMatch(Tail(candidatePaths), contextSegments, candidatePaths[1], score)
           ELSE BestMatch(Tail(candidatePaths), contextSegments, bestMatch, highestScore)

\* The resolver that asks leafToPaths for the full path instead of the path.
resolvePathToSid_KeyedByFullPath(path, tree, contextPath) ==
  LET fullPath == contextPath \o path
      fullPathStripped == stripPrefixes(fullPath)
      pathStripped == stripPrefixes(fullPath)
      candidatePaths ==
        IF Len(pathStripped) = 1 /\ MapHas(tree.leafToPaths, pathStripped[1])
        THEN MapGet(tree.leafToPaths, pathStripped[1])
        ELSE <<>>
  IN  IF MapHas(tree.prefixedPathToSid, fullPath)
      THEN MapGet(tree.prefixedPathToSid, fullPath)
      ELSE IF MapHas(tree.pathToSid, fullPathStripped)
      THEN MapGet(tree.pathToSid, fullPathStripped)
      ELSE IF candidatePaths = <<>> THEN Null
      ELSE IF Len(candidatePaths) = 1 THEN MapGet(tree.pathToSid, candidatePaths[1])
      ELSE MapGet(tree.pathToSid,
                  BestMatch(candidatePaths, stripPrefixes(contextPath), <<>>, -1))

\* The resolver without the direct lookup of the stripped full path.
resolvePathToSid_NoStrippedLookup(path, tree, contextPath) ==
  LET fullPath == contextPath \o path
      pathStripped == stripPrefixes(path)
      candidatePaths ==
        IF Len(pathStripped) = 1 /\ MapHas(tree.leafToPaths, pathStripped[1])
        THEN MapGet(tree.leafToPaths, pathStripped[1])
        ELSE <<>>
  IN  IF MapHas(tree.prefixedPathToSid, fullPath)
      THEN MapGet(tree.prefixedPathToSid, fullPath)
      ELSE IF candidatePaths = <<>> THEN Null
      ELSE IF Len(candidatePaths) = 1 THEN MapGet(tree.pathToSid, candidatePaths[1])
      ELSE MapGet(tree.pathToSid,
                  BestMatch(candidatePaths, stripPrefixes(contextPath), <<>>, -1))

\* resolvePathToSid(path, sidTree, contextPath): the SID, or Null.  A key of
\* leafToPaths is one segment, so a path of several segments is no key of it.
resolvePathToSid(path, tree, contextPath) ==
  LET fullPath == contextPath \o path
      fullPathStripped == stripPrefixes(fullPath)
      pathStripped == stripPrefixes(path)
      candidatePaths ==
        IF Len(pathStripped) = 1 /\ MapHas(tree.leafToPaths, pathStripped[1])
        THEN MapGet(tree.leafToPaths, pathStripped[1])
        ELSE <<>>
  IN  IF MapHas(tree.prefixedPathToSid, fullPath)
      THEN MapGet(tree.prefixedPathToSid, fullPath)
      ELSE IF MapHas(tree.pathToSid, fullPathStripped)
      THEN MapGet(tree.pathToSid, fullPathStripped)
      ELSE IF candidatePaths = <<>> THEN Null
      ELSE IF Len(candidatePaths) = 1 THEN MapGet(tree.pathToSid, candidatePaths[1])
      ELSE MapGet(tree.pathToSid,
                  BestMatch(candidatePaths, stripPrefixes(contextPath), <<>>, -1))

\* ------------------------------------------------------- the other lookups
\* resolveSidToPath(sid, sidTree): the path, or <<>> for null.
resolveSidToPath(sid, tree) ==
  IF MapHas(tree.sidToPath, sid) THEN MapGet(tree.sidToPath, sid) ELSE <<>>

RECURSIVE InsertBySid(_, _)
\* One step of the stable sort by sid: entry goes behind the entries of SIDs <= its own.
InsertBySid(sorted, entry) ==
  IF sorted = <<>> THEN <<entry>>
  ELSE IF sorted[Len(sorted)].sid <= entry.sid THEN Append(sorted, entry)
  ELSE Append(InsertBySid(SubSeq(sorted, 1, Len(sorted) - 1), entry), sorted[Len(sorted)])

RECURSIVE SortBySid(_, _)
SortBySid(sorted, paths) ==
  IF paths = <<>> THEN sorted
  ELSE SortBySid(InsertBySid(sorted, paths[1]), Tail(paths))

\* getAllSidPaths(sidTree): the { path, sid } objects of pathToSid, sorted by SID.
getAllSidPaths(tree) ==
  SortBySid(<<>>, [i \in 1..Len(tree.pathToSid) |->
                     [path |-> tree.pathToSid[i][1], sid |-> tree.pathToSid[i][2]]])

\* getSidTreeStats(sidTree); min and max of no SID at all are Infinity and
\* -Infinity, written Null.
getSidTreeStats(tree) ==
  LET sids == {tree.sidToPath[i][1] : i \in 1..Len(tree.sidToPath)}
  IN  [totalPaths |-> Len(tree.pathToSid),
       totalIdentities |-> Len(tree.identityToSid),
       min |-> IF sids = {} THEN Null ELSE CHOOSE x \in sids : \A y \in sids : x <= y,
       max |-> IF sids = {} THEN Null ELSE CHOOSE x \in sids : \A y \in sids : y <= x]

\* ------------------------------------------------------------ Delta-SID keys
RECURSIVE NodeInfoBySidFrom(_, _)
NodeInfoBySidFrom(entries, acc) ==
  IF entries = <<>> THEN acc
  ELSE NodeInfoBySidFrom(Tail(entries), MapSet(acc, entries[1][2].sid, entries[1][2]))

\* The index of the nodeInfo entries by their SID that encoder and decoder use.
nodeInfoBySid(tree) == NodeInfoBySidFrom(tree.nodeInfo, <<>>)

\* The key rule without the comparison with parentSid.
EncodeKey_AnyParent(nodeInfo, currentSid, parentSid) ==
  IF nodeInfo.parent # Null THEN nodeInfo.deltaSid ELSE currentSid

\* The key the encoder writes for the node currentSid below the node parentSid.
EncodeKey(nodeInfo, currentSid, parentSid) ==
  IF nodeInfo.parent # Null /\ nodeInfo.parent = parentSid
  THEN nodeInfo.deltaSid
  ELSE currentSid

\* The delta reading without the comparison of the parent.
DeltaConfirmed_AnyParent(key, parentSid, bySid) ==
  /\ parentSid # Null
  /\ MapHas(bySid, key + parentSid)

\* The decoder reads key below parentSid as a delta: key + parentSid is a node
\* whose parent is parentSid.
DeltaConfirmed(key, parentSid, bySid) ==
  /\ parentSid # Null
  /\ MapHas(bySid, key + parentSid)
  /\ MapGet(bySid, key + parentSid).parent = parentSid

\* The SID the decoder reads key below parentSid as, or Null (DeltaResolve).
DecodeKey(key, parentSid, bySid) ==
  IF DeltaConfirmed(key, parentSid, bySid) THEN key + parentSid
  ELSE IF MapHas(bySid, key) THEN key
  ELSE Null

\* ------------------------------------------------------------------ inputs
\* Identifiers of data items: /m:a, /m:c, /m:a/b, /m:a/n:b, /m:a/ch/b.
DataIdentifiers ==
  { << <<"m", "a">> >>,
    << <<"m", "c">> >>,
    << <<"m", "a">>, <<"b">> >>,
    << <<"m", "a">>, <<"n", "b">> >>,
    << <<"m", "a">>, <<"ch">>, <<"b">> >> }

\* Identifiers of identity items: m:x, n:x.
IdentityIdentifiers == { << <<"m", "x">> >>, << <<"n", "x">> >> }

Sids == 1..MaxSid

Items ==
  [sid : Sids, namespace : {"data"}, identifier : DataIdentifiers]
    \cup [sid : Sids, namespace : {"identity"}, identifier : IdentityIdentifiers]

\* The items of a directory: every identifier is assigned once.
ItemSeqs ==
  {its \in UNION {[1..n -> Items] : n \in 1..MaxItems} :
     \A i, j \in 1..Len(its) : i # j => its[i].identifier # its[j].identifier}

\* The items of a directory of well-formed SID files: every SID is assigned once.
ValidItemSeqs ==
  {its \in ItemSeqs : \A i, j \in 1..Len(its) : i # j => its[i].sid # its[j].sid}

\* The .sid files of a directory, in readdir order: one file, or two files that
\* split the items at k.
SidDirsOf(seqs) ==
  {<<[items |-> its, mtime |-> 0]>> : its \in seqs}
    \cup {<<[items |-> SubSeq(its, 1, k), mtime |-> 0],
            [items |-> SubSeq(its, k + 1, Len(its)), mtime |-> 0]>> :
            its \in {s \in seqs : Len(s) > 1}, k \in 1..(MaxItems - 1)}

SidDirs == SidDirsOf(ItemSeqs)

\* What extractYangTypes returns for a module with a choice ch, an enumeration
\* typedef t refined by the vendor typedef mchp-t, a leaf a/b of type t and an
\* identity x.
EnumOf(pairs) ==
  [nameToValue |-> pairs,
   valueToName |-> [i \in 1..Len(pairs) |-> <<pairs[i][2], pairs[i][1]>>]]

YangModule ==
  [types |->
     << << << <<"a">>, <<"b">> >>,
           [type |-> "enumeration", enum |-> EnumOf(<< <<"open", 0>> >>),
            original |-> <<"t">>] >> >>,
   identities |-> << << <<"x">>, [hasBases |-> TRUE, bases |-> << <<"m", "base">> >>] >> >>,
   typedefs |->
     << << <<"t">>,
           [type |-> "enumeration", enum |-> EnumOf(<< <<"open", 0>> >>),
            original |-> <<"t">>] >>,
        << <<"mchp-", "t">>,
           [type |-> "enumeration", enum |-> EnumOf(<< <<"closed", 1>> >>),
            original |-> <<"mchp-", "t">>] >> >>,
   choiceNames |-> << <<"ch">> >>,
   caseNames |-> <<>>,
   nodeOrders |-> << << <<"a">>, << <<"b">> >> >> >>]

\* The .yang files of a directory: none, or the module above.
YangDirs == {<<>>, <<[table |-> YangModule, mtime |-> 0]>>}

\* ------------------------------------------------------------------- state
VARIABLES
  sidFiles,    \* the .sid files of the cache directory: [items, mtime]
  yangFiles,   \* the .yang files of the cache directory: [table, mtime]
  cacheFile,   \* <dir>.cache.json: [exists, mtime, chunks]
  now,         \* the clock
  dirGen,      \* how often a source file was modified (history)
  pc,          \* per call of loadYangInputs: where it stands
  noCache,     \* per call: options.noCache
  cacheTime,   \* per call: isCacheValid's cacheTime
  srcSeen,     \* per call: the newest source mtime isCacheValid saw (history)
  observed,    \* per call: what readFile returned to loadFromCache
  sidTree,     \* per call: the merged SID tree
  built,       \* per call: the tables to return
  doc,         \* per call: the JSON document saveToCache writes
  written,     \* per call: chunks writeFile has written
  results,     \* per process: the values its calls returned
  userPath,    \* the instance-identifier the encoder is given
  wire,        \* the keys the encoder has written: [key, parent, sid, ok]
  decoded,     \* the SIDs the decoder has read back from wire
  probe,       \* a key of a payload from the device, decoded: [key, parent, sid]
  lookups,     \* the lookups made in the returned SID tree, with what they gave
  cli,         \* one run of bin/keti-tsn.js: its arguments and how far it got
  par          \* one build of loadYangInputs, file by file: slots, merges, events

vars ==
  <<sidFiles, yangFiles, cacheFile, now, dirGen, pc, noCache, cacheTime, srcSeen,
    observed, sidTree, built, doc, written, results, userPath, wire, decoded, probe,
    lookups, cli, par>>

codecVars == <<userPath, wire, decoded, probe, lookups, cli, par>>

Procs == {1, 2}

\* Chunks fs.promises.writeFile writes the JSON text in.
WriteChunks == 2
\* Modifications of a source file in a run.
MaxTouch == 1

NoData == [none |-> TRUE]

NoFile == [exists |-> FALSE, mtime |-> 0, chunks |-> <<>>]

\* A cache file of another format version, left by another release of the tool.
OtherVersionFile ==
  [exists |-> TRUE, mtime |-> 1,
   chunks |-> [i \in 1..WriteChunks |->
                 [serializeData(EmptyTree, EmptyTypeTable, 0)
                    EXCEPT !.version = CACHE_VERSION + 1]]]

\* The text of the file is a whole JSON document: every chunk of one document.
FileComplete(f) ==
  /\ f.exists
  /\ Len(f.chunks) = WriteChunks
  /\ \A i \in 1..Len(f.chunks) : f.chunks[i] = f.chunks[1] /\ f.chunks[i] # NoData

NoTables == [none |-> TRUE]

\* A slot of a result array whose promise has not settled.
NoResult == [none |-> TRUE]

\* No build followed file by file.
NoPar ==
  [stage |-> "idle", sidTrees |-> <<>>, parsed |-> <<>>, typeTables |-> <<>>,
   yangParsed |-> <<>>, sidTree |-> EmptyTree, typeTable |-> EmptyTypeTable,
   augmented |-> EmptyTree, events |-> <<>>]

InitCalls ==
  /\ par = NoPar
  /\ dirGen = 0
  /\ pc = [p \in Procs |-> "idle"]
  /\ noCache = [p \in Procs |-> FALSE]
  /\ cacheTime = [p \in Procs |-> 0]
  /\ srcSeen = [p \in Procs |-> 0]
  /\ observed = [p \in Procs |-> NoFile]
  /\ doc = [p \in Procs |-> NoData]
  /\ sidTree = [p \in Procs |-> EmptyTree]
  /\ built = [p \in Procs |-> NoTables]
  /\ written = [p \in Procs |-> 0]
  /\ results = [p \in Procs |-> <<>>]

NoProbe == [key |-> 0, parent |-> Null, sid |-> Null, done |-> FALSE]

\* No run of the command line tool.
NoCli == [stage |-> "none"]

InitNoCodec ==
  /\ userPath = <<>>
  /\ wire = <<>>
  /\ decoded = <<>>
  /\ probe = NoProbe
  /\ lookups = <<>>
  /\ cli = NoCli

\* ------------------------------------------------------------ loadYangInputs
\* Line 268: with options.noCache the cache is not looked at.
Call(p, nc) ==
  /\ pc[p] = "idle"
  /\ Len(results[p]) < MaxCalls
  /\ noCache' = [noCache EXCEPT ![p] = nc]
  /\ pc' = [pc EXCEPT ![p] = IF nc THEN "readdir" ELSE "stat"]
  /\ built' = [built EXCEPT ![p] = [none |-> TRUE, gen0 |-> dirGen]]
  /\ observed' = [observed EXCEPT ![p] = NoFile]
  /\ UNCHANGED <<doc, sidFiles, yangFiles, cacheFile, now, dirGen, cacheTime, srcSeen,
                 sidTree, written, results>>
  /\ UNCHANGED codecVars

\* isCacheValid, lines 92-93: stat of the cache file (it throws when there is none).
StatCache(p) ==
  /\ pc[p] = "stat"
  /\ IF cacheFile.exists
     THEN /\ cacheTime' = [cacheTime EXCEPT ![p] = cacheFile.mtime]
          /\ pc' = [pc EXCEPT ![p] = "scan"]
     ELSE /\ pc' = [pc EXCEPT ![p] = "readdir"]
          /\ UNCHANGED cacheTime
  /\ UNCHANGED <<doc, sidFiles, yangFiles, cacheFile, now, dirGen, noCache, srcSeen,
                 observed, sidTree, built, written, results>>
  /\ UNCHANGED codecVars

SourceTimes ==
  {sidFiles[i].mtime : i \in 1..Len(sidFiles)}
    \cup {yangFiles[i].mtime : i \in 1..Len(yangFiles)}

Newest(times) == IF times = {} THEN 0 ELSE CHOOSE t \in times : \A u \in times : u <= t

\* isCacheValid(cacheFile, yangCacheDir), lines 96-105, given cacheTime.
isCacheValid(cTime, times) == ~ \E t \in times : t > cTime

ScanSources(p) ==
  /\ pc[p] = "scan"
  /\ srcSeen' = [srcSeen EXCEPT ![p] = Newest(SourceTimes)]
  /\ pc' = [pc EXCEPT ![p] = IF isCacheValid(cacheTime[p], SourceTimes)
                             THEN "load" ELSE "readdir"]
  /\ UNCHANGED <<doc, sidFiles, yangFiles, cacheFile, now, dirGen, noCache, cacheTime,
                 observed, sidTree, built, written, results>>
  /\ UNCHANGED codecVars

\* loadFromCache: readFile, JSON.parse, deserializeData; any throw is caught at
\* line 274 and the tables are rebuilt.
LoadFromCache(p) ==
  /\ pc[p] = "load"
  /\ observed' = [observed EXCEPT ![p] = cacheFile]
  /\ IF FileComplete(cacheFile) /\ VersionMatches(cacheFile.chunks[1])
     THEN /\ built' = [built EXCEPT ![p] =
                         [none |-> FALSE, gen0 |-> built[p].gen0, fromCache |-> TRUE,
                          tables |-> deserializeData(cacheFile.chunks[1])]]
          /\ pc' = [pc EXCEPT ![p] = "done"]
     ELSE /\ pc' = [pc EXCEPT ![p] = "readdir"]
          /\ UNCHANGED built
  /\ UNCHANGED <<doc, sidFiles, yangFiles, cacheFile, now, dirGen, noCache, cacheTime,
                 srcSeen, sidTree, written, results>>
  /\ UNCHANGED codecVars

\* Lines 286-366: readdir, every .sid file parsed, merged, parents computed.
ReadSidFiles(p) ==
  /\ pc[p] = "readdir"
  /\ sidTree' = [sidTree EXCEPT ![p] = BuildMergedSidTree(sidFiles)]
  /\ pc' = [pc EXCEPT ![p] = "yang"]
  /\ UNCHANGED <<doc, sidFiles, yangFiles, cacheFile, now, dirGen, noCache, cacheTime,
                 srcSeen, observed, built, written, results>>
  /\ UNCHANGED codecVars

\* Lines 368-460: every .yang file parsed, merged; Steps 6 and 7.
ReadYangFiles(p) ==
  /\ pc[p] = "yang"
  /\ built' = [built EXCEPT ![p] =
                 [none |-> FALSE, gen0 |-> built[p].gen0, fromCache |-> FALSE,
                  tables |-> BuildTables(sidTree[p], yangFiles)]]
  /\ pc' = [pc EXCEPT ![p] = IF noCache[p] THEN "done" ELSE "save"]
  /\ UNCHANGED <<doc, sidFiles, yangFiles, cacheFile, now, dirGen, noCache, cacheTime,
                 srcSeen, observed, sidTree, written, results>>
  /\ UNCHANGED codecVars

\* saveToCache, lines 244-245: the document is serialized and writeFile opens the
\* cache file, which truncates it.
SaveOpen(p) ==
  /\ pc[p] = "save"
  /\ cacheFile' = [exists |-> TRUE, mtime |-> now, chunks |-> <<>>]
  /\ written' = [written EXCEPT ![p] = 0]
  /\ doc' = [doc EXCEPT ![p] = serializeData(built[p].tables.sidTree,
                                              built[p].tables.typeTable, now)]
  /\ pc' = [pc EXCEPT ![p] = "write"]
  /\ UNCHANGED <<sidFiles, yangFiles, now, dirGen, noCache, cacheTime, srcSeen,
                 observed, sidTree, built, results>>
  /\ UNCHANGED codecVars

\* The k-th chunk lands at its offset of whatever the file holds by then.
PutChunk(chunks, k, text) ==
  [i \in 1..(IF Len(chunks) < k THEN k ELSE Len(chunks)) |->
     IF i = k THEN text ELSE IF i <= Len(chunks) THEN chunks[i] ELSE NoData]

\* writeFile writes the next chunk of the text; after the last one the call returns.
SaveWrite(p) ==
  /\ pc[p] = "write"
  /\ cacheFile' = [cacheFile EXCEPT
                     !.chunks = PutChunk(@, written[p] + 1, doc[p]),
                     !.mtime = now]
  /\ written' = [written EXCEPT ![p] = @ + 1]
  /\ pc' = [pc EXCEPT ![p] = IF written[p] + 1 = WriteChunks THEN "done" ELSE "write"]
  /\ UNCHANGED <<doc, sidFiles, yangFiles, now, dirGen, noCache, cacheTime, srcSeen,
                 observed, sidTree, built, results>>
  /\ UNCHANGED codecVars

\* Lines 482-487: writeFile throws (no permission, disk full); not critical.
SaveFails(p) ==
  /\ pc[p] = "save"
  /\ pc' = [pc EXCEPT ![p] = "done"]
  /\ UNCHANGED <<doc, sidFiles, yangFiles, cacheFile, now, dirGen, noCache, cacheTime,
                 srcSeen, observed, sidTree, built, written, results>>
  /\ UNCHANGED codecVars

\* return { sidTree, typeTable } (line 273 or line 490).
Return(p) ==
  /\ pc[p] = "done"
  /\ results' = [results EXCEPT ![p] =
                   Append(@, [sidTree |-> built[p].tables.sidTree,
                              typeTable |-> built[p].tables.typeTable,
                              fromCache |-> built[p].fromCache,
                              noCache |-> noCache[p],
                              cacheTime |-> cacheTime[p],
                              cacheVersion |-> IF built[p].fromCache
                                               THEN observed[p].chunks[1].version
                                               ELSE CACHE_VERSION,
                              srcSeen |-> srcSeen[p],
                              gen0 |-> built[p].gen0,
                              gen1 |-> dirGen])]
  /\ pc' = [pc EXCEPT ![p] = "idle"]
  /\ UNCHANGED <<doc, sidFiles, yangFiles, cacheFile, now, dirGen, noCache, cacheTime,
                 srcSeen, observed, sidTree, built, written>>
  /\ UNCHANGED codecVars

\* ------------------------------------------------------------- environment
Tick ==
  /\ now < MaxTime
  /\ now' = now + 1
  /\ UNCHANGED <<doc, sidFiles, yangFiles, cacheFile, dirGen, pc, noCache, cacheTime,
                 srcSeen, observed, sidTree, built, written, results>>
  /\ UNCHANGED codecVars

\* Somebody edits the first .sid file: its first item gets another SID.
TouchSource ==
  /\ dirGen < MaxTouch
  /\ dirGen' = dirGen + 1
  /\ sidFiles' = [sidFiles EXCEPT
                    ![1] = [items |-> [@.items EXCEPT ![1].sid = (@ % MaxSid) + 1],
                            mtime |-> now]]
  /\ UNCHANGED <<doc, yangFiles, cacheFile, now, pc, noCache, cacheTime, srcSeen,
                 observed, sidTree, built, written, results>>
  /\ UNCHANGED codecVars

\* ------------------------------------------------------------------ codec
\* The tables the codec was given: what loadYangInputs returned.
CodecTree == results[1][1].sidTree

NoKey == [key |-> 0, parent |-> Null, sid |-> Null, ok |-> FALSE]

\* The encoder descends one segment of userPath: the segment is resolved in the
\* context of the segments above it and its key is written below the node of
\* the segment above.
EncodeNext ==
  /\ Len(wire) < Len(userPath)
  /\ wire # <<>> => wire[Len(wire)].ok
  /\ LET i == Len(wire) + 1
         sid == resolvePathToSid(<<userPath[i]>>, CodecTree, SubSeq(userPath, 1, i - 1))
         parentSid == IF i = 1 THEN Null ELSE wire[i - 1].sid
         bySid == nodeInfoBySid(CodecTree)
     IN  wire' = Append(wire,
                   IF sid = Null \/ ~MapHas(bySid, sid) THEN NoKey
                   ELSE [key |-> EncodeKey(MapGet(bySid, sid), sid, parentSid),
                         parent |-> parentSid, sid |-> sid, ok |-> TRUE])
  /\ UNCHANGED <<par, sidFiles, yangFiles, cacheFile, now, dirGen, pc, noCache,
                 cacheTime,
                 srcSeen, observed, sidTree, built, doc, written, results>>
  /\ UNCHANGED <<userPath, decoded, probe, lookups, cli>>

\* The decoder reads the next key of wire below the parent it was written below.
DecodeNext ==
  /\ Len(decoded) < Len(wire)
  /\ wire[Len(decoded) + 1].ok
  /\ LET k == wire[Len(decoded) + 1]
     IN  decoded' = Append(decoded, DecodeKey(k.key, k.parent, nodeInfoBySid(CodecTree)))
  /\ UNCHANGED <<par, sidFiles, yangFiles, cacheFile, now, dirGen, pc, noCache,
                 cacheTime,
                 srcSeen, observed, sidTree, built, doc, written, results>>
  /\ UNCHANGED <<userPath, wire, probe, lookups, cli>>

\* The decoder reads a key of a payload of the device below parentSid.
DecodeForeign(key, parentSid) ==
  /\ ~probe.done
  /\ probe' = [key |-> key, parent |-> parentSid,
               sid |-> DecodeKey(key, parentSid, nodeInfoBySid(CodecTree)),
               done |-> TRUE]
  /\ UNCHANGED <<par, sidFiles, yangFiles, cacheFile, now, dirGen, pc, noCache,
                 cacheTime,
                 srcSeen, observed, sidTree, built, doc, written, results>>
  /\ UNCHANGED <<userPath, wire, decoded, lookups, cli>>

\* ---------------------------------------------------------------- lookups
\* A caller resolves path in the context contextPath.  The function has no
\* throw statement and writes to no Map: it returns the SID or null.
ResolvePath(path, contextPath) ==
  /\ lookups' = Append(lookups,
                  [fn |-> "resolvePathToSid", arg |-> path, context |-> contextPath,
                   threw |-> FALSE,
                   result |-> resolvePathToSid(path, CodecTree, contextPath)])
  /\ UNCHANGED <<par, sidFiles, yangFiles, cacheFile, now, dirGen, pc, noCache,
                 cacheTime,
                 srcSeen, observed, sidTree, built, doc, written, results>>
  /\ UNCHANGED <<userPath, wire, decoded, probe, cli>>

\* A caller applies augmentSidTreeWithAliases to the returned tree once more.
AugmentAgain(choiceNames, caseNames) ==
  /\ Len(lookups) < MaxLookups
  /\ results' = [results EXCEPT ![1][1].sidTree =
                   augmentSidTreeWithAliases(@, choiceNames, caseNames)]
  /\ lookups' = Append(lookups,
                  [fn |-> "augmentSidTreeWithAliases", arg |-> choiceNames,
                   context |-> caseNames, threw |-> FALSE, result |-> Null])
  /\ UNCHANGED <<par, sidFiles, yangFiles, cacheFile, now, dirGen, pc, noCache,
                 cacheTime,
                 srcSeen, observed, sidTree, built, doc, written>>
  /\ UNCHANGED <<userPath, wire, decoded, probe, cli>>

\* The lookup fn(arg, context) of the returned tree and what it returns.  None of
\* the six functions assigns to a Map of the tree or to a field of it.
LookupResult(fn, arg, context) ==
  CASE fn = "resolvePathToSid" -> resolvePathToSid(arg, CodecTree, context)
    [] fn = "resolveSidToPath" -> resolveSidToPath(arg, CodecTree)
    [] fn = "resolveIdentityToSid" -> resolveIdentityToSid(arg, CodecTree)
    [] fn = "resolveSidToIdentity" -> resolveSidToIdentity(arg, CodecTree)
    [] fn = "getAllSidPaths" -> getAllSidPaths(CodecTree)
    [] fn = "getSidTreeStats" -> getSidTreeStats(CodecTree)

\* The lookup that stores a path it resolved in pathToSid for the next time.
Read_Memoizing(fn, arg, context) ==
  /\ Len(lookups) < MaxReads
  /\ lookups' = Append(lookups, [fn |-> fn, arg |-> arg, context |-> context,
                                 threw |-> FALSE,
                                 result |-> LookupResult(fn, arg, context)])
  /\ results' = IF fn = "resolvePathToSid" /\ LookupResult(fn, arg, context) # Null
                THEN [results EXCEPT ![1][1].sidTree.pathToSid =
                        MapSet(@, stripPrefixes(context \o arg),
                               LookupResult(fn, arg, context))]
                ELSE results
  /\ UNCHANGED <<par, sidFiles, yangFiles, cacheFile, now, dirGen, pc, noCache,
                 cacheTime,
                 srcSeen, observed, sidTree, built, doc, written>>
  /\ UNCHANGED <<userPath, wire, decoded, probe, cli>>

\* A caller makes the lookup fn(arg, context) in the returned tree.
Read(fn, arg, context) ==
  /\ Len(lookups) < MaxReads
  /\ lookups' = Append(lookups, [fn |-> fn, arg |-> arg, context |-> context,
                                 threw |-> FALSE,
                                 result |-> LookupResult(fn, arg, context)])
  /\ UNCHANGED <<par, sidFiles, yangFiles, cacheFile, now, dirGen, pc, noCache,
                 cacheTime,
                 srcSeen, observed, sidTree, built, doc, written, results>>
  /\ UNCHANGED <<userPath, wire, decoded, probe, cli>>

\* ------------------------------------------------------------ specifications
\* One process calling loadYangInputs again and again over a directory that is
\* edited meanwhile.
Item(sid, identifier) == [sid |-> sid, namespace |-> "data", identifier |-> identifier]

CacheDirs ==
  { <<[items |-> <<Item(1, << <<"m", "a">> >>),
                   Item(s, << <<"m", "a">>, <<"ch">>, <<"b">> >>)>>,
       mtime |-> t]>> : s \in Sids \ {1}, t \in 0..1 }

Init ==
  /\ sidFiles \in CacheDirs
  /\ yangFiles \in YangDirs
  /\ cacheFile \in {NoFile, OtherVersionFile}
  /\ now = 1
  /\ InitCalls
  /\ InitNoCodec

Step(p) ==
  \/ \E nc \in BOOLEAN : Call(p, nc)
  \/ StatCache(p)
  \/ ScanSources(p)
  \/ LoadFromCache(p)
  \/ ReadSidFiles(p)
  \/ ReadYangFiles(p)
  \/ SaveOpen(p)
  \/ SaveWrite(p)
  \/ SaveFails(p)
  \/ Return(p)

Next == Step(1) \/ Tick \/ TouchSource

Spec == Init /\ [][Next]_vars

\* The tables of every bounded directory, built without the cache.
InitTables ==
  /\ sidFiles \in SidDirs
  /\ yangFiles \in YangDirs
  /\ cacheFile = NoFile
  /\ now = 1
  /\ InitCalls
  /\ InitNoCodec

NextTables == Call(1, TRUE) \/ ReadSidFiles(1) \/ ReadYangFiles(1) \/ Return(1)

SpecTables == InitTables /\ [][NextTables]_vars

\* The same for directories that hold well-formed SID files only.
InitMerge ==
  /\ sidFiles \in SidDirsOf(ValidItemSeqs)
  /\ yangFiles = <<>>
  /\ cacheFile = NoFile
  /\ now = 1
  /\ InitCalls
  /\ InitNoCodec

SpecMerge == InitMerge /\ [][NextTables]_vars

\* Directories of well-formed SID files together with the module, whose choice
\* ch makes augmentSidTreeWithAliases add aliases.
InitAlias ==
  /\ sidFiles \in SidDirsOf(ValidItemSeqs)
  /\ yangFiles = <<[table |-> YangModule, mtime |-> 0]>>
  /\ cacheFile = NoFile
  /\ now = 1
  /\ InitCalls
  /\ InitNoCodec

SpecAlias == InitAlias /\ [][NextTables]_vars

\* The enumerations a vendor typedef mchp-t declares next to the base typedef t
\* (open = 0): another name and value, the value of the base under another
\* name, the name of the base with another value, the same name and value.
VendorEnums ==
  { << <<"closed", 1>> >>, << <<"closed", 0>> >>, << <<"open", 1>> >>,
    << <<"open", 0>> >>, << <<"closed", 1>>, <<"open", 0>> >> }

\* The module with the vendor typedef mchp-t declaring the pairs.
YangModuleWith(pairs) == [YangModule EXCEPT !.typedefs[2][2].enum = EnumOf(pairs)]

\* Directories whose module has a vendor typedef to merge.
InitEnum ==
  /\ sidFiles \in SidDirsOf({s \in ValidItemSeqs : Len(s) <= 2})
  /\ yangFiles \in {<<[table |-> YangModuleWith(pairs), mtime |-> 0]>> : pairs \in VendorEnums}
  /\ cacheFile = NoFile
  /\ now = 1
  /\ InitCalls
  /\ InitNoCodec

SpecEnum == InitEnum /\ [][NextTables]_vars

\* Two processes call loadYangInputs over one directory at the same time.
InitConc ==
  /\ sidFiles \in CacheDirs
  /\ yangFiles \in YangDirs
  /\ cacheFile \in {NoFile, OtherVersionFile}
  /\ now = 1
  /\ InitCalls
  /\ InitNoCodec

NextConc == Step(1) \/ Step(2)

SpecConc == InitConc /\ [][NextConc]_vars

\* Somebody deletes the last .sid file of the directory; no file that is left
\* gets another mtime.
DeleteSource ==
  /\ dirGen < MaxTouch
  /\ Len(sidFiles) >= 2
  /\ dirGen' = dirGen + 1
  /\ sidFiles' = SubSeq(sidFiles, 1, Len(sidFiles) - 1)
  /\ UNCHANGED <<doc, yangFiles, cacheFile, now, pc, noCache, cacheTime, srcSeen,
                 observed, sidTree, built, written, results>>
  /\ UNCHANGED codecVars

\* The SIDs the .sid files of the directory assign.
UsedSids ==
  UNION {{sidFiles[f].items[i].sid : i \in 1..Len(sidFiles[f].items)} :
           f \in 1..Len(sidFiles)}

\* Somebody adds a .sid file for /m:c to the directory: a new file (mtime now),
\* or a copy that keeps the mtime of its original (mtime 0).
AddSource(mtime) ==
  /\ dirGen < MaxTouch
  /\ Len(sidFiles) = 1
  /\ Sids \ UsedSids # {}
  /\ dirGen' = dirGen + 1
  /\ sidFiles' = Append(sidFiles,
                   [items |-> <<Item(CHOOSE sid \in Sids \ UsedSids : TRUE,
                                     << <<"m", "c">> >>)>>,
                    mtime |-> mtime])
  /\ UNCHANGED <<doc, yangFiles, cacheFile, now, pc, noCache, cacheTime, srcSeen,
                 observed, sidTree, built, written, results>>
  /\ UNCHANGED codecVars

\* Directories of one .sid file, and of two.
ChangeDirs ==
  CacheDirs
    \cup { <<[items |-> <<Item(1, << <<"m", "a">> >>)>>, mtime |-> 0],
             [items |-> <<Item(s, << <<"m", "a">>, <<"b">> >>)>>, mtime |-> 0]>> :
             s \in Sids \ {1} }

\* One process calling loadYangInputs again and again over a directory that
\* files are added to and deleted from meanwhile.
InitChange ==
  /\ sidFiles \in ChangeDirs
  /\ yangFiles \in YangDirs
  /\ cacheFile = NoFile
  /\ now = 1
  /\ InitCalls
  /\ InitNoCodec

NextChange ==
  \/ Step(1)
  \/ Tick
  \/ DeleteSource
  \/ \E mtime \in {0, now} : AddSource(mtime)

SpecChange == InitChange /\ [][NextChange]_vars

\* ------------------------------------------------- the parallel file loads
\* The .sid files of a directory whose loads are followed one by one.
MaxFiles == 2

\* A .sid file of one item; two files may give one path two SIDs, or one SID
\* two paths.
ParFiles ==
  {[items |-> <<Item(sid, identifier)>>, mtime |-> 0] :
     sid \in 1..2, identifier \in {<< <<"m", "a">> >>, << <<"m", "a">>, <<"b">> >>}}
    \cup {[items |-> <<[sid |-> sid, namespace |-> "identity",
                        identifier |-> << <<"m", "x">> >>]>>, mtime |-> 0] :
            sid \in 1..2}

ParDirs == UNION {[1..n -> ParFiles] : n \in 1..MaxFiles}

\* The .yang files: the module, or the module and a second one.
ParYangDirs ==
  {<<[table |-> YangModule, mtime |-> 0]>>,
   <<[table |-> YangModule, mtime |-> 0],
     [table |-> YangModuleWith(<< <<"closed", 0>> >>), mtime |-> 0]>>}

\* A result array in the order in which the promises settled.
ResultSlot_Completion(i, k) == k

\* Promise.all(files.map(load)): the value of the promise of input i, settled
\* as the k-th, is element i of the result.
ResultSlot(i, k) == i

\* Step 1: readdir; the loads of all .sid files are started.
ParReadDir ==
  /\ par.stage = "idle"
  /\ par' = [par EXCEPT !.stage = "sid",
                        !.sidTrees = [i \in 1..Len(sidFiles) |-> NoResult],
                        !.events = Append(@, "readdir")]
  /\ UNCHANGED <<sidFiles, yangFiles, cacheFile, now, dirGen, pc, noCache, cacheTime,
                 srcSeen, observed, sidTree, built, doc, written, results>>
  /\ UNCHANGED <<userPath, wire, decoded, probe, lookups, cli>>

\* buildSidTree of the .sid file i settles: the file is read and parsed.
SidFileParsed(i) ==
  /\ par.stage = "sid"
  /\ i \in 1..Len(sidFiles)
  /\ \A k \in 1..Len(par.parsed) : par.parsed[k] # i
  /\ par' = [par EXCEPT
               !.sidTrees[ResultSlot(i, Len(par.parsed) + 1)] =
                  buildSidTree(sidFiles[i].items),
               !.parsed = Append(@, i),
               !.events = Append(@, "read sid")]
  /\ UNCHANGED <<sidFiles, yangFiles, cacheFile, now, dirGen, pc, noCache, cacheTime,
                 srcSeen, observed, sidTree, built, doc, written, results>>
  /\ UNCHANGED <<userPath, wire, decoded, probe, lookups, cli>>

\* Promise.all is fulfilled: the merge loop and Step 3 run; Step 4 lists the
\* .yang files and their loads are started.
MergeSid ==
  /\ par.stage = "sid"
  /\ \A i \in 1..Len(par.sidTrees) : par.sidTrees[i] # NoResult
  /\ par' = [par EXCEPT
               !.sidTree = RecalcParents(MergeSidTrees(EmptyTree, par.sidTrees)),
               !.typeTables = [i \in 1..Len(yangFiles) |-> NoResult],
               !.stage = "yang",
               !.events = Append(@, "merge sid")]
  /\ UNCHANGED <<sidFiles, yangFiles, cacheFile, now, dirGen, pc, noCache, cacheTime,
                 srcSeen, observed, sidTree, built, doc, written, results>>
  /\ UNCHANGED <<userPath, wire, decoded, probe, lookups, cli>>

\* extractYangTypes of the .yang file i settles: the file is read and parsed.
YangFileParsed(i) ==
  /\ par.stage = "yang"
  /\ i \in 1..Len(yangFiles)
  /\ \A k \in 1..Len(par.yangParsed) : par.yangParsed[k] # i
  /\ par' = [par EXCEPT
               !.typeTables[ResultSlot(i, Len(par.yangParsed) + 1)] = yangFiles[i].table,
               !.yangParsed = Append(@, i),
               !.events = Append(@, "read yang")]
  /\ UNCHANGED <<sidFiles, yangFiles, cacheFile, now, dirGen, pc, noCache, cacheTime,
                 srcSeen, observed, sidTree, built, doc, written, results>>
  /\ UNCHANGED <<userPath, wire, decoded, probe, lookups, cli>>

\* Promise.all is fulfilled: the type tables are merged, Steps 6 and 7 run.
MergeYang ==
  /\ par.stage = "yang"
  /\ \A i \in 1..Len(par.typeTables) : par.typeTables[i] # NoResult
  /\ LET typeTable ==
           MergeVendorTypedefs(MergeTypeTables(EmptyTypeTable, par.typeTables))
     IN  par' = [par EXCEPT
                   !.typeTable = typeTable,
                   !.augmented = augmentSidTreeWithAliases(par.sidTree,
                                   typeTable.choiceNames, typeTable.caseNames),
                   !.stage = "done",
                   !.events = Append(@, "merge yang")]
  /\ UNCHANGED <<sidFiles, yangFiles, cacheFile, now, dirGen, pc, noCache, cacheTime,
                 srcSeen, observed, sidTree, built, doc, written, results>>
  /\ UNCHANGED <<userPath, wire, decoded, probe, lookups, cli>>

InitPar ==
  /\ sidFiles \in ParDirs
  /\ yangFiles \in ParYangDirs
  /\ cacheFile = NoFile
  /\ now = 1
  /\ InitCalls
  /\ InitNoCodec

NextPar ==
  \/ ParReadDir
  \/ \E i \in 1..MaxFiles : SidFileParsed(i)
  \/ MergeSid
  \/ \E i \in 1..MaxFiles : YangFileParsed(i)
  \/ MergeYang

SpecPar == InitPar /\ [][NextPar]_vars

\* What loadYangInputs(dir, {noCache: true}) returns for the directory.
LoadedNoCache(sf, yf) ==
  LET tables == BuildTables(BuildMergedSidTree(sf), yf)
  IN  [sidTree |-> tables.sidTree, typeTable |-> tables.typeTable,
       fromCache |-> FALSE, noCache |-> TRUE, cacheTime |-> 0,
       cacheVersion |-> CACHE_VERSION, srcSeen |-> 0, gen0 |-> 0, gen1 |-> 0]

\* Directories of one well-formed SID file of data items, with the module.
CodecDirs ==
  {<<[items |-> its, mtime |-> 0]>> :
     its \in {s \in ValidItemSeqs : \A i \in 1..Len(s) : s[i].namespace = "data"}}

\* The instance-identifiers the encoder is given: /m:a, /m:a/b, /m:a/c, ...
UserSegments == {<<"m", "a">>, <<"a">>, <<"b">>, <<"c">>}

UserPaths == UNION {[1..n -> UserSegments] : n \in 1..MaxDepth}

InitLoadedFrom(dirs) ==
  /\ par = NoPar
  /\ sidFiles \in dirs
  /\ yangFiles = <<[table |-> YangModule, mtime |-> 0]>>
  /\ cacheFile = NoFile
  /\ now = 1
  /\ dirGen = 0
  /\ pc = [p \in Procs |-> "idle"]
  /\ noCache = [p \in Procs |-> p = 1]
  /\ cacheTime = [p \in Procs |-> 0]
  /\ srcSeen = [p \in Procs |-> 0]
  /\ observed = [p \in Procs |-> NoFile]
  /\ doc = [p \in Procs |-> NoData]
  /\ sidTree = [p \in Procs |-> IF p = 1 THEN BuildMergedSidTree(sidFiles) ELSE EmptyTree]
  /\ built = [p \in Procs |->
                IF p = 1
                THEN [none |-> FALSE, gen0 |-> 0, fromCache |-> FALSE,
                      tables |-> BuildTables(BuildMergedSidTree(sidFiles), yangFiles)]
                ELSE NoTables]
  /\ written = [p \in Procs |-> 0]
  /\ results = [p \in Procs |->
                  IF p = 1 THEN <<LoadedNoCache(sidFiles, yangFiles)>> ELSE <<>>]

InitLoaded == InitLoadedFrom(CodecDirs)

\* The encoder writes the keys of an instance-identifier and the decoder reads
\* them back, over the tables of a directory.
InitCodec ==
  /\ InitLoaded
  /\ userPath \in UserPaths
  /\ wire = <<>>
  /\ decoded = <<>>
  /\ probe = NoProbe
  /\ lookups = <<>>
  /\ cli = NoCli

NextCodec == EncodeNext \/ DecodeNext

SpecCodec == InitCodec /\ [][NextCodec]_vars

\* The decoder reads one key of a payload of the device.
InitDecode ==
  /\ InitLoaded
  /\ InitNoCodec

WireKeys == (0 - MaxSid)..MaxSid

NextDecode == \E key \in WireKeys, parentSid \in Sids \cup {Null} : DecodeForeign(key, parentSid)

SpecDecode == InitDecode /\ [][NextDecode]_vars

\* Identifiers of the SID files the lookups run over: two candidates of the leaf
\* b below different nodes, one below a choice.
LookupIdentifiers ==
  { << <<"m", "a">> >>,
    << <<"m", "c">> >>,
    << <<"m", "a">>, <<"b">> >>,
    << <<"m", "c">>, <<"b">> >>,
    << <<"m", "a">>, <<"ch">>, <<"b">> >> }

LookupDirs ==
  {<<[items |-> its, mtime |-> 0]>> :
     its \in {s \in UNION {[1..n -> [sid : Sids, namespace : {"data"},
                                       identifier : LookupIdentifiers]] :
                             n \in 1..MaxItems} :
                \A i, j \in 1..Len(s) :
                   i # j => s[i].identifier # s[j].identifier /\ s[i].sid # s[j].sid}}

\* The path arguments: one segment, or several.
LookupPaths ==
  { << <<"b">> >>, << <<"n", "b">> >>, << <<"a">> >>, << <<"x">> >>,
    << <<"ch">>, <<"b">> >>, << <<"m", "a">>, <<"b">> >>, << <<"x">>, <<"b">> >>,
    << <<"a">>, <<"b">> >> }

\* The contexts: none, or up to MaxDepth segments.
LookupContexts ==
  {<<>>} \cup UNION {[1..n -> {<<"m", "a">>, <<"c">>, <<"ch">>, <<"x">>}] : n \in 1..MaxDepth}

InitResolve ==
  /\ InitLoadedFrom(LookupDirs)
  /\ InitNoCodec

NextResolve ==
  \E path \in LookupPaths, contextPath \in LookupContexts :
    lookups = <<>> /\ ResolvePath(path, contextPath)

SpecResolve == InitResolve /\ [][NextResolve]_vars

\* The choice and case names of a further augmentation.
NameLists == {<<>>, << <<"ch">> >>, << <<"b">> >>, << <<"m", "a">> >>}

InitAugment ==
  /\ InitLoaded
  /\ InitNoCodec

NextAugment ==
  \E choiceNames \in NameLists, caseNames \in NameLists :
    AugmentAgain(choiceNames, caseNames)

SpecAugment == InitAugment /\ [][NextAugment]_vars

\* Directories of one well-formed SID file of up to two items, data or identity.
ReadDirs ==
  {<<[items |-> its, mtime |-> 0]>> :
     its \in {s \in ValidItemSeqs :
                /\ Len(s) <= 2
                /\ \A i \in 1..Len(s) :
                     s[i].identifier \in {<< <<"m", "a">>, <<"b">> >>,
                                          << <<"m", "a">>, <<"ch">>, <<"b">> >>,
                                          << <<"m", "x">> >>, << <<"n", "x">> >>}}}

\* The lookups a caller makes: each function with an argument it finds and one
\* it does not find.
ReadCalls ==
  {<<"resolvePathToSid", << <<"b">> >>, <<>>>>,
   <<"resolvePathToSid", << <<"x">> >>, << <<"m", "a">> >>>>,
   <<"resolveSidToPath", 1, <<>>>>,
   <<"resolveSidToPath", MaxSid + 1, <<>>>>,
   <<"resolveIdentityToSid", <<"m", "x">>, <<>>>>,
   <<"resolveIdentityToSid", <<"y">>, <<>>>>,
   <<"resolveSidToIdentity", 1, <<>>>>,
   <<"resolveSidToIdentity", MaxSid + 1, <<>>>>,
   <<"getAllSidPaths", 0, <<>>>>,
   <<"getSidTreeStats", 0, <<>>>>}

InitRead ==
  /\ InitLoadedFrom(ReadDirs)
  /\ InitNoCodec

NextRead == \E call \in ReadCalls : Read(call[1], call[2], call[3])

SpecRead == InitRead /\ [][NextRead]_vars

\* ------------------------------------------------------------ bin/keti-tsn.js
\* null and undefined as values of an option.
NoValue == "<null>"

Undefined == "<undefined>"

\* What JavaScript's ! takes for false among the values of an option.
Falsy(v) == v \in {NoValue, Undefined, ""}

DEFAULT_DEVICE == "/dev/ttyACM0"

DEFAULT_TRANSPORT == "serial"

DEFAULT_WIFI_PORT == 5683

\* The options parseArgs starts from (those no command below reads are left out).
DefaultOptions ==
  [command |-> NoValue, file |-> NoValue, transport |-> DEFAULT_TRANSPORT,
   device |-> DEFAULT_DEVICE, host |-> NoValue, port |-> DEFAULT_WIFI_PORT]

\* arg.startsWith('-') over the words of a command line.
StartsWithDash(arg) ==
  arg \in {"-h", "--help", "-V", "--version", "--transport", "-d", "--device",
           "--host", "--port", "-o", "--output", "-c", "--cache", "--sort-mode",
           "-v", "--verbose"}

\* args[i]: undefined past the end of the array.
ArgAt(args, i) == IF i <= Len(args) THEN args[i] ELSE Undefined

\* The custom port of the README.
CustomPort == 5684

\* parseInt(word, 10) over the words of a command line; Null is NaN.
parseInt(word) == IF word = "5684" THEN CustomPort ELSE Null

\* The while loop of parseArgs from args[i] on; exit is the code of process.exit
\* when -h or -V ends the process.
RECURSIVE ParseLoop(_, _, _)
ParseLoop(args, i, o) ==
  IF i > Len(args) THEN [options |-> o, exit |-> Null]
  ELSE LET arg == args[i]
           val == ArgAt(args, i + 1)
       IN  CASE arg \in {"-h", "--help", "-V", "--version"} -> [options |-> o, exit |-> 0]
             [] arg = "--transport" -> ParseLoop(args, i + 2, [o EXCEPT !.transport = val])
             [] arg \in {"-d", "--device"} -> ParseLoop(args, i + 2, [o EXCEPT !.device = val])
             [] arg = "--host" -> ParseLoop(args, i + 2, [o EXCEPT !.host = val])
             [] arg = "--port" -> ParseLoop(args, i + 2, [o EXCEPT !.port = parseInt(val)])
             [] arg \in {"-o", "--output", "-c", "--cache", "--sort-mode"} ->
                  ParseLoop(args, i + 2, o)
             [] arg \in {"-v", "--verbose"} -> ParseLoop(args, i + 1, o)
             [] OTHER ->
                  ParseLoop(args, i + 1,
                    IF StartsWithDash(arg) THEN o
                    ELSE IF Falsy(o.command) THEN [o EXCEPT !.command = arg]
                    ELSE IF Falsy(o.file) THEN [o EXCEPT !.file = arg]
                    ELSE o)

\* parseArgs: the options, or the exit code and the error of a rejected line.
parseArgs(args) ==
  LET r == ParseLoop(args, 1, DefaultOptions)
      o == r.options
  IN  IF r.exit # Null THEN [options |-> o, exit |-> r.exit, error |-> ""]
      ELSE IF o.transport = "wifi" /\ Falsy(o.host)
      THEN [options |-> o, exit |-> 1,
            error |-> "--host is required when using WiFi transport"]
      ELSE IF o.transport # "serial" /\ o.transport # "wifi"
      THEN [options |-> o, exit |-> 1, error |-> "Unknown transport type"]
      ELSE [options |-> o, exit |-> Null, error |-> ""]

\* The cases of main's switch: the function a command is dispatched to.
HandlerOf(command) ==
  CASE command = "checksum" -> "checksumCommand"
    [] command = "download" -> "downloadCommand"
    [] command = "list" -> "listCommand"
    [] command = "encode" -> "encodeCommand"
    [] command = "decode" -> "decodeCommand"
    [] command = "get" -> "getCommand"
    [] command = "fetch" -> "fetchCommand"
    [] command = "patch" -> "patchCommand"
    [] OTHER -> "none"

\* The cases of main's switch that end the process when no file is given.
NeedsFile == {"encode", "decode", "fetch", "patch"}

\* The transport classes of the factory; "throws" for its default case.
createTransport(type) ==
  CASE type = "serial" -> "SerialTransport"
    [] type = "wifi" -> "WiFiTransport"
    [] type = "eth" -> "EthernetTransport"
    [] OTHER -> "throws"

\* options.transport || 'serial'
TransportTypeOf(o) == IF Falsy(o.transport) THEN "serial" ELSE o.transport

NoQuery == [sid |-> Null, keys |-> <<>>]

NoTarget == [kind |-> "none", host |-> NoValue, port |-> Null, device |-> NoValue]

\* A run of the tool on the command line args, before main.
CliStart(args) ==
  [args |-> args, stage |-> "start", options |-> DefaultOptions, handler |-> "none",
   file |-> NoValue, exit |-> Null, error |-> "", handed |-> NoValue,
   entries |-> <<>>, query |-> NoQuery, transport |-> "none", target |-> NoTarget,
   opened |-> FALSE, connected |-> FALSE, ready |-> FALSE, disconnects |-> 0,
   sent |-> <<>>, items |-> <<>>, index |-> 1, outcomes |-> <<>>,
   successCount |-> 0, failCount |-> 0]

\* process.exit(code) after the message error, or the return of main.
Exit(c, code, error) ==
  [c EXCEPT !.stage = "exited", !.exit = code, !.error = error]

\* A command throws error: main's catch prints the error and exits with 1.
Throw(c, error) == Exit(c, 1, error)

\* The try statement without its finally block.
Finally_Skipped(c) == c

\* finally { if (transport.getConnectionStatus()) await transport.disconnect(); }
Finally(c) ==
  IF c.connected THEN [c EXCEPT !.connected = FALSE, !.disconnects = @ + 1] ELSE c

\* main up to the call of the command: parseArgs, then the switch.
Main ==
  /\ cli.stage = "start"
  /\ LET p == parseArgs(cli.args)
         o == p.options
         c == [cli EXCEPT !.options = o]
     IN  cli' =
           IF Len(cli.args) = 0 THEN Exit(cli, 0, "")
           ELSE IF p.exit # Null THEN Exit(c, p.exit, p.error)
           ELSE IF Falsy(o.command) THEN Exit(c, 0, "")
           ELSE IF HandlerOf(o.command) = "none" THEN Exit(c, 1, "Unknown command")
           ELSE IF o.command \in NeedsFile /\ Falsy(o.file)
           THEN Exit(c, 1, "Input file required")
           ELSE [c EXCEPT !.handler = HandlerOf(o.command), !.stage = "prepare",
                          !.file = IF o.command \in NeedsFile THEN o.file ELSE NoValue]
  /\ UNCHANGED <<par, sidFiles, yangFiles, cacheFile, now, dirGen, pc, noCache,
                 cacheTime,
                 srcSeen, observed, sidTree, built, doc, written, results>>
  /\ UNCHANGED <<userPath, wire, decoded, probe, lookups>>

\* A command main imports from a file other than fetch.js and patch.js returns
\* or throws.
OtherCommand ==
  /\ cli.stage = "prepare"
  /\ cli.handler \notin {"fetchCommand", "patchCommand", "postCommand"}
  /\ \E ok \in BOOLEAN :
       cli' = IF ok THEN Exit(cli, 0, "") ELSE Throw(cli, "command failed")
  /\ UNCHANGED <<par, sidFiles, yangFiles, cacheFile, now, dirGen, pc, noCache,
                 cacheTime,
                 srcSeen, observed, sidTree, built, doc, written, results>>
  /\ UNCHANGED <<userPath, wire, decoded, probe, lookups>>

\* ------------------------------------------------------------ fetch, patch
\* Entries in a query file, items in a file of RPCs.
MaxEntries == 2

\* An entry of extractSidsFromInstanceIdentifier: a SID, or a list SID with keys.
Entries == [sid : Sids, keys : {<<>>}] \cup [sid : {MaxSid}, keys : {<<"k">>}]

EntrySeqs == UNION {[1..n -> Entries] : n \in 0..MaxEntries}

\* What fetchCommand throws before it extracts the entries.
FetchErrors ==
  {"Input file not found", "No YANG catalog found",
   "iFETCH requires instance-identifier format"}

\* The properties of the object loadYangInputs returns.
LoadResultKeys == {"sidTree", "typeTable"}

\* const { name } = result: the value of the property name, named by its
\* property, or undefined when the object has no such property.
Destructure(keys, name) == IF name \in keys THEN name ELSE Undefined

\* The choice of the last entry for the query.
QueryOf_Last(entries) == entries[Len(entries)]

\* The entry that becomes the query: entries[0], of one entry and of many.
QueryOf(entries) == entries[1]

\* fetchCommand up to createTransport: the tables are loaded, the file is read,
\* the entries are extracted (or the extraction throws) and the query is chosen.
FetchPrepare ==
  /\ cli.stage = "prepare"
  /\ cli.handler = "fetchCommand"
  /\ \E error \in FetchErrors \cup {""}, thrown \in BOOLEAN, entries \in EntrySeqs :
       LET c == [cli EXCEPT !.handed = Destructure(LoadResultKeys, "sidInfo")]
           type == TransportTypeOf(cli.options)
       IN  cli' =
             IF error # "" THEN Throw(cli, error)
             ELSE IF thrown THEN Throw(c, "extractSidsFromInstanceIdentifier failed")
             ELSE IF Len(entries) = 0
             THEN Throw([c EXCEPT !.entries = entries], "No valid SIDs found")
             ELSE IF createTransport(type) = "throws"
             THEN Throw([c EXCEPT !.entries = entries, !.query = QueryOf(entries)],
                        "Unknown transport type")
             ELSE [c EXCEPT !.entries = entries, !.query = QueryOf(entries),
                            !.transport = createTransport(type), !.stage = "connect"]
  /\ UNCHANGED <<par, sidFiles, yangFiles, cacheFile, now, dirGen, pc, noCache,
                 cacheTime,
                 srcSeen, observed, sidTree, built, doc, written, results>>
  /\ UNCHANGED <<userPath, wire, decoded, probe, lookups>>

\* What patchCommand throws before it has the CBOR of the patch.
PatchErrors == {"Input file not found", "No YANG catalog found", "convertFile failed"}

\* The CBOR buffer convertFile makes of the patch file.
PatchData == [sid |-> Null, keys |-> <<"cbor">>]

\* patchCommand up to createTransport: the file is converted to CBOR.
PatchPrepare ==
  /\ cli.stage = "prepare"
  /\ cli.handler = "patchCommand"
  /\ \E error \in PatchErrors \cup {""} :
       cli' =
         IF error # "" THEN Throw(cli, error)
         ELSE IF createTransport(TransportTypeOf(cli.options)) = "throws"
         THEN Throw([cli EXCEPT !.query = PatchData], "Unknown transport type")
         ELSE [cli EXCEPT !.query = PatchData,
                          !.transport = createTransport(TransportTypeOf(cli.options)),
                          !.stage = "connect"]
  /\ UNCHANGED <<par, sidFiles, yangFiles, cacheFile, now, dirGen, pc, noCache,
                 cacheTime,
                 srcSeen, observed, sidTree, built, doc, written, results>>
  /\ UNCHANGED <<userPath, wire, decoded, probe, lookups>>

\* What fetchCommand hands to transport.connect.
FetchConnectTarget(o) ==
  IF TransportTypeOf(o) = "wifi"
  THEN [kind |-> "udp", host |-> o.host, port |-> o.port, device |-> NoValue]
  ELSE [kind |-> "serial", host |-> NoValue, port |-> Null, device |-> o.device]

\* What patchCommand hands to transport.connect.
PatchConnectTarget(o) ==
  IF TransportTypeOf(o) = "wifi"
  THEN [kind |-> "udp", host |-> o.host, port |-> o.port, device |-> NoValue]
  ELSE [kind |-> "serial", host |-> NoValue, port |-> Null, device |-> o.device]

\* await transport.connect(target), the first statement of the try block: the
\* transport connects, or connect throws.
ConnectTo(target) ==
  /\ cli.stage = "connect"
  /\ \E ok \in BOOLEAN :
       cli' = IF ok
              THEN [cli EXCEPT !.target = target, !.opened = TRUE, !.connected = TRUE,
                               !.stage = "ready"]
              ELSE Throw(Finally([cli EXCEPT !.target = target]), "connect failed")
  /\ UNCHANGED <<par, sidFiles, yangFiles, cacheFile, now, dirGen, pc, noCache,
                 cacheTime,
                 srcSeen, observed, sidTree, built, doc, written, results>>
  /\ UNCHANGED <<userPath, wire, decoded, probe, lookups>>

FetchConnect == cli.handler = "fetchCommand" /\ ConnectTo(FetchConnectTarget(cli.options))

PatchConnect == cli.handler = "patchCommand" /\ ConnectTo(PatchConnectTarget(cli.options))

\* An await that goes on whether the promise was fulfilled or rejected.
AwaitGoesOn_Always(ok) == TRUE

\* await promise: the statements after it run only when the promise was
\* fulfilled; a rejection is thrown.
AwaitGoesOn(ok) == ok

\* await transport.waitForReady(5000): the device answers, or the wait throws.
WaitForReady ==
  /\ cli.stage = "ready"
  /\ \E ok \in BOOLEAN :
       cli' = IF AwaitGoesOn(ok)
              THEN [cli EXCEPT !.ready = ok,
                               !.stage = IF cli.handler = "postCommand"
                                         THEN "loop" ELSE "send"]
              ELSE Throw(Finally(cli), "device not ready")
  /\ UNCHANGED <<par, sidFiles, yangFiles, cacheFile, now, dirGen, pc, noCache,
                 cacheTime,
                 srcSeen, observed, sidTree, built, doc, written, results>>
  /\ UNCHANGED <<userPath, wire, decoded, probe, lookups>>

\* The request goes out; then the command returns, or it throws the outcome.
\* The finally block runs either way.
Send(verb, outcomes) ==
  /\ cli.stage = "send"
  /\ \E outcome \in outcomes :
       LET c == Finally([cli EXCEPT !.sent = Append(@, [verb |-> verb,
                                                        payload |-> cli.query])])
       IN  cli' = IF outcome = "ok" THEN Exit(c, 0, "") ELSE Throw(c, outcome)
  /\ UNCHANGED <<par, sidFiles, yangFiles, cacheFile, now, dirGen, pc, noCache,
                 cacheTime,
                 srcSeen, observed, sidTree, built, doc, written, results>>
  /\ UNCHANGED <<userPath, wire, decoded, probe, lookups>>

\* transport.sendiFetchRequest(query), once; the request throws, the answer is
\* no success, or decoding or writing the answer throws.
SendiFetch ==
  /\ cli.handler = "fetchCommand"
  /\ Send("iFETCH", {"ok", "request error", "iFETCH failed", "decode or write error"})

\* transport.sendiPatchRequest(patchData), once.
SendiPatch ==
  /\ cli.handler = "patchCommand"
  /\ Send("iPATCH", {"ok", "request error", "iPATCH failed"})

\* -------------------------------------------------------------------- post
\* What postCommand throws before it has the items.
PostErrors ==
  {"Input file not found", "No YANG catalog found",
   "POST requires instance-identifier format"}

\* The RPC items of a file, in the order of the file.
PostItemSeqs ==
  UNION {[1..n -> {"save-config", "factory-reset"}] : n \in 1..MaxEntries}

\* postCommand(file, options) called with the options of a transport (main
\* has no case that calls it).
PostCall(transport, host) ==
  [CliStart(<<>>) EXCEPT
     !.stage = "prepare", !.handler = "postCommand", !.file = "save-config.yaml",
     !.options = [DefaultOptions EXCEPT !.transport = transport, !.host = host]]

PostCalls ==
  {PostCall("serial", NoValue), PostCall("wifi", "192.168.1.10"),
   PostCall("eth", "192.168.1.10")}

\* postCommand up to createTransport: the file is read and parsed.
PostPrepare ==
  /\ cli.stage = "prepare"
  /\ cli.handler = "postCommand"
  /\ \E error \in PostErrors \cup {""}, items \in PostItemSeqs :
       cli' =
         IF error # "" THEN Throw(cli, error)
         ELSE IF createTransport(TransportTypeOf(cli.options)) = "throws"
         THEN Throw([cli EXCEPT !.items = items], "Unknown transport type")
         ELSE [cli EXCEPT !.items = items,
                          !.transport = createTransport(TransportTypeOf(cli.options)),
                          !.stage = "connect"]
  /\ UNCHANGED <<par, sidFiles, yangFiles, cacheFile, now, dirGen, pc, noCache,
                 cacheTime,
                 srcSeen, observed, sidTree, built, doc, written, results>>
  /\ UNCHANGED <<userPath, wire, decoded, probe, lookups>>

\* What postCommand hands to transport.connect.
PostConnectTarget(o) ==
  IF TransportTypeOf(o) = "wifi" \/ TransportTypeOf(o) = "eth"
  THEN [kind |-> "udp", host |-> o.host, port |-> o.port, device |-> NoValue]
  ELSE [kind |-> "serial", host |-> NoValue, port |-> Null, device |-> o.device]

PostConnect == cli.handler = "postCommand" /\ ConnectTo(PostConnectTarget(cli.options))

\* The loop that ends at the first item that failed.
AfterFailure_Break(index, length) == length + 1

\* failCount++; continue: the loop goes on with the next item.
AfterFailure(index, length) == index + 1

\* One item of the loop up to the request: the item is converted to CBOR and
\* the request goes out, or the conversion throws and the item has failed.
PostItemSend ==
  /\ cli.stage = "loop"
  /\ cli.index <= Len(cli.items)
  /\ \E encoded \in BOOLEAN :
       cli' = IF encoded
              THEN [cli EXCEPT !.sent = Append(@, [verb |-> "POST",
                                                   payload |-> [index |-> cli.index,
                                                                item |-> cli.items[cli.index]]]),
                               !.stage = "inflight"]
              ELSE [cli EXCEPT !.outcomes = Append(@, "encode error"),
                               !.failCount = @ + 1,
                               !.index = AfterFailure(cli.index, Len(cli.items))]
  /\ UNCHANGED <<par, sidFiles, yangFiles, cacheFile, now, dirGen, pc, noCache,
                 cacheTime,
                 srcSeen, observed, sidTree, built, doc, written, results>>
  /\ UNCHANGED <<userPath, wire, decoded, probe, lookups>>

\* await transport.sendPostRequest(postData) ends: a success, a CoAP code that
\* is no success, or the request throws.
PostItemDone ==
  /\ cli.stage = "inflight"
  /\ \E outcome \in {"ok", "CoAP failure", "transport error"} :
       cli' = IF outcome = "ok"
              THEN [cli EXCEPT !.outcomes = Append(@, outcome),
                               !.successCount = @ + 1,
                               !.index = @ + 1,
                               !.stage = "loop"]
              ELSE [cli EXCEPT !.outcomes = Append(@, outcome),
                               !.failCount = @ + 1,
                               !.index = AfterFailure(cli.index, Len(cli.items)),
                               !.stage = "loop"]
  /\ UNCHANGED <<par, sidFiles, yangFiles, cacheFile, now, dirGen, pc, noCache,
                 cacheTime,
                 srcSeen, observed, sidTree, built, doc, written, results>>
  /\ UNCHANGED <<userPath, wire, decoded, probe, lookups>>

\* The test that throws for one failed item, whatever succeeded.
AllFailed_AnyFailure(successCount, failCount) == failCount > 0

\* failCount > 0 && successCount === 0
AllFailed(successCount, failCount) == failCount > 0 /\ successCount = 0

\* After the loop: the command throws when every item failed, else it returns;
\* the finally block runs either way.
PostFinish ==
  /\ cli.stage = "loop"
  /\ cli.index > Len(cli.items)
  /\ cli' = IF AllFailed(cli.successCount, cli.failCount)
            THEN Throw(Finally(cli), "All POST operations failed")
            ELSE Exit(Finally(cli), 0, "")
  /\ UNCHANGED <<par, sidFiles, yangFiles, cacheFile, now, dirGen, pc, noCache,
                 cacheTime,
                 srcSeen, observed, sidTree, built, doc, written, results>>
  /\ UNCHANGED <<userPath, wire, decoded, probe, lookups>>

\* The command lines: a command or none, a file or none, a transport, a host,
\* a port; the help flag; a flag without its value.
CommandWords ==
  {"checksum", "download", "list", "encode", "decode", "get", "fetch", "patch",
   "post", "reboot"}

ArgLists ==
  {c \o f \o t \o h \o p :
     c \in {<<>>} \cup {<<w>> : w \in CommandWords},
     f \in {<<>>, <<"query.yaml">>},
     t \in {<<>>} \cup {<<"--transport", w>> : w \in {"serial", "wifi", "eth", "usb"}},
     h \in {<<>>, <<"--host", "192.168.1.10">>},
     p \in {<<>>, <<"--port", "5684">>}}
  \cup {<<"-h">>, <<"fetch", "query.yaml", "--transport">>}

\* A run of the tool on a command line, or a call of postCommand.
InitCli ==
  /\ sidFiles = <<>>
  /\ yangFiles = <<>>
  /\ cacheFile = NoFile
  /\ now = 0
  /\ InitCalls
  /\ userPath = <<>>
  /\ wire = <<>>
  /\ decoded = <<>>
  /\ probe = NoProbe
  /\ lookups = <<>>
  /\ cli \in {CliStart(args) : args \in ArgLists} \cup PostCalls

NextCli ==
  \/ Main
  \/ OtherCommand
  \/ FetchPrepare
  \/ PatchPrepare
  \/ PostPrepare
  \/ FetchConnect
  \/ PatchConnect
  \/ PostConnect
  \/ WaitForReady
  \/ SendiFetch
  \/ SendiPatch
  \/ PostItemSend
  \/ PostItemDone
  \/ PostFinish

SpecCli == InitCli /\ [][NextCli]_vars

\* ------------------------------------------------------ claims on the tables
ReturnedTrees ==
  UNION {{results[p][j].sidTree : j \in 1..Len(results[p])} : p \in Procs}

MapKeys(m) == {m[i][1] : i \in 1..Len(m)}

DataPaths(tree) == {p \in MapKeys(tree.pathToSid) : ~IsSynthetic(p)}

\* The SID of the longest proper prefix of path among the paths in keys, or Null.
LongestPrefixSid(tree, path, keys) ==
  LET ks == {k \in 1..(Len(path) - 1) : SubSeq(path, 1, k) \in keys}
  IN  IF ks = {} THEN Null
      ELSE MapGet(tree.pathToSid, SubSeq(path, 1, CHOOSE k \in ks : \A j \in ks : j <= k))

\* C4 as claimed: every non-synthetic key of pathToSid of a returned tree (alias
\* paths included) has a nodeInfo entry whose parent is the SID of its longest
\* proper prefix among the keys of pathToSid.
C4_AsClaimed ==
  \A tree \in ReturnedTrees : \A path \in DataPaths(tree) :
    /\ MapHas(tree.nodeInfo, path)
    /\ MapGet(tree.nodeInfo, path).parent
         = LongestPrefixSid(tree, path, MapKeys(tree.pathToSid))

\* C4 amended: nodeInfo of a returned tree holds the non-synthetic paths of the
\* merged SID files (the alias paths that augmentation adds to pathToSid get no
\* entry); the parent of each entry is the SID of the longest proper prefix of
\* its path that has an entry itself, or none.
C4_ParentIsLongestPrefix ==
  \A tree \in ReturnedTrees :
    /\ MapKeys(tree.nodeInfo) \subseteq DataPaths(tree)
    /\ \A path \in DataPaths(tree) \ MapKeys(tree.nodeInfo) :
         \E i \in 1..Len(tree.sidToPrefixedPath) :
            /\ tree.sidToPrefixedPath[i][2] # path
            /\ stripPrefixes(tree.sidToPrefixedPath[i][2]) # path
            /\ MapGet(tree.pathToSid, path) = tree.sidToPrefixedPath[i][1]
    /\ \A path \in MapKeys(tree.nodeInfo) :
         LET info == MapGet(tree.nodeInfo, path)
         IN  /\ info.sid = MapGet(tree.pathToSid, path)
             /\ info.parent = LongestPrefixSid(tree, path, MapKeys(tree.nodeInfo))

\* C4 witness: a returned tree with a node below another node and an alias path
\* in pathToSid.
C4_Witness ==
  \E tree \in ReturnedTrees :
    /\ \E path \in MapKeys(tree.nodeInfo) : MapGet(tree.nodeInfo, path).parent # Null
    /\ DataPaths(tree) \ MapKeys(tree.nodeInfo) # {}

\* C5 as claimed: for every SID s of sidToPath whose node has a parent, with
\* p = sidToPath[s], nodeInfo[p].deltaSid + nodeInfo[p].parent = s.
C5_DeltaPlusParent ==
  \A tree \in ReturnedTrees : \A i \in 1..Len(tree.sidToPath) :
    LET s == tree.sidToPath[i][1]
        p == tree.sidToPath[i][2]
    IN  (MapHas(tree.nodeInfo, p) /\ MapGet(tree.nodeInfo, p).parent # Null)
          => MapGet(tree.nodeInfo, p).deltaSid + MapGet(tree.nodeInfo, p).parent = s

\* C6 as claimed: pathToSid and sidToPath are mutually inverse on data nodes.
C6_MutuallyInverse ==
  \A tree \in ReturnedTrees :
    /\ \A p \in DataPaths(tree) :
         /\ MapHas(tree.sidToPath, MapGet(tree.pathToSid, p))
         /\ MapGet(tree.sidToPath, MapGet(tree.pathToSid, p)) = p
    /\ \A i \in 1..Len(tree.sidToPath) :
         ~IsSynthetic(tree.sidToPath[i][2])
           => /\ MapHas(tree.pathToSid, tree.sidToPath[i][2])
              /\ MapGet(tree.pathToSid, tree.sidToPath[i][2]) = tree.sidToPath[i][1]

\* The identity items of the SID files of the directory.
IdentityItems ==
  {item \in UNION {{sidFiles[f].items[i] : i \in 1..Len(sidFiles[f].items)} :
                     f \in 1..Len(sidFiles)} : item.namespace = "identity"}

\* C7 as claimed: every loaded identity item (module:name, s) resolves to s by its
\* bare name and by module:name, and s resolves back to the name.
C7_IdentityBijection ==
  \A tree \in ReturnedTrees : \A item \in IdentityItems :
    /\ resolveIdentityToSid(StripSeg(item.identifier[1]), tree) = item.sid
    /\ resolveIdentityToSid(item.identifier[1], tree) = item.sid
    /\ resolveSidToIdentity(item.sid, tree) = StripSeg(item.identifier[1])

\* ------------------------------------------------------- claims on the cache
\* A process called loadYangInputs twice and no source file was modified from
\* the start of the first call to the return of the second.
TwoCallsSameDir(p) ==
  /\ Len(results[p]) >= 2
  /\ results[p][1].gen0 = results[p][2].gen1

\* C8 as claimed: two loadYangInputs calls over the same unchanged cache
\* directory return deep-equal { sidTree, typeTable }, whether the second call
\* rebuilds (noCache) or loads the cache.
C8_Idempotent ==
  \A p \in Procs :
    TwoCallsSameDir(p)
      => /\ results[p][1].sidTree = results[p][2].sidTree
         /\ results[p][1].typeTable = results[p][2].typeTable

\* C9 as claimed: a call returns the tables of the cache file only when the
\* mtime of the cache file strictly exceeds the mtime of every .yang and .sid
\* file of the directory and the version of the file is CACHE_VERSION.
C9_CacheOnlyIfStrictlyNewer ==
  \A p \in Procs : \A j \in 1..Len(results[p]) :
    results[p][j].fromCache
      => /\ results[p][j].cacheTime > results[p][j].srcSeen
         /\ results[p][j].cacheVersion = CACHE_VERSION

\* C10 as claimed: the cache file is written atomically, so what a concurrent
\* loadFromCache reads is a whole document, never a half-written file.
C10_ReaderSeesWholeFile ==
  \A p \in Procs : observed[p].exists => FileComplete(observed[p])

\* ------------------------------------------------------- claims on the codec
\* C1 as claimed: every key the encoder wrote below a node P for a child of
\* SID c is read back by the decoder below the same P as c, whether the key is
\* the delta or the absolute SID.
C1_RoundTrip ==
  \A j \in 1..Len(decoded) : decoded[j] = wire[j].sid

NodeInfos(tree) == {tree.nodeInfo[i][2] : i \in 1..Len(tree.nodeInfo)}

\* C2: a key written below a node P for a child c is c.sid - P iff the parent
\* recorded in the nodeInfo of c is P, and c.sid otherwise; so key + P is a SID
\* whose recorded parent is P, or key is a SID of the tables whose recorded
\* parent is not P.
C2_EncoderKeyRule ==
  \A i \in 1..Len(wire) :
    (wire[i].ok /\ wire[i].parent # Null)
      => LET P == wire[i].parent
             key == wire[i].key
             c == CHOOSE info \in NodeInfos(CodecTree) : info.sid = wire[i].sid
         IN  /\ (c.parent = P) <=> (key = c.sid - P)
             /\ (c.parent # P) => (key = c.sid)
             /\ \/ \E n \in NodeInfos(CodecTree) : n.sid = key + P /\ n.parent = P
                \/ \E n \in NodeInfos(CodecTree) : n.sid = key /\ n.parent # P

\* C2 witness: the encoder has written the delta key of a child below its
\* parent node.
C2_Witness ==
  \E i \in 1..Len(wire) :
    /\ wire[i].ok
    /\ wire[i].parent # Null
    /\ wire[i].key = wire[i].sid - wire[i].parent

\* C3: below a node P the decoder reads a key k as k + P when k + P is a SID
\* whose recorded parent is P, even when k is a SID of the tables itself;
\* otherwise as k when k is a SID of the tables; otherwise it fails.  At the
\* root it reads k as k when k is a SID of the tables and fails otherwise.
C3_DecoderKeyResolution ==
  probe.done
    => LET P == probe.parent
           k == probe.key
           isDelta == P # Null /\ \E n \in NodeInfos(CodecTree) :
                                     n.sid = k + P /\ n.parent = P
           isNode == \E n \in NodeInfos(CodecTree) : n.sid = k
       IN  /\ isDelta => probe.sid = k + P
           /\ (~isDelta /\ isNode) => probe.sid = k
           /\ (~isDelta /\ ~isNode) => probe.sid = Null

\* C3 witness: the decoder has read, below a node P, a key k for which both
\* k + P is a child of P and k is a SID of the tables.
C3_Witness ==
  /\ probe.done
  /\ probe.parent # Null
  /\ \E n \in NodeInfos(CodecTree) : n.sid = probe.key + probe.parent /\ n.parent = probe.parent
  /\ \E n \in NodeInfos(CodecTree) : n.sid = probe.key
  /\ probe.sid = probe.key + probe.parent

\* The cache file a call read can be used: a whole document of CACHE_VERSION.
Usable(f) == FileComplete(f) /\ f.chunks[1].version = CACHE_VERSION

\* C11: a call that is about to return returns the tables of the cache file
\* only if the file it read is a whole document of CACHE_VERSION; a call that
\* read another version or a text that does not parse, or whose save failed,
\* returns the tables rebuilt from the source files.
C11_BadCacheRebuilt ==
  \A p \in Procs :
    pc[p] = "done"
      => /\ ~built[p].none
         /\ built[p].fromCache => Usable(observed[p])
         /\ (~built[p].fromCache /\ built[p].gen0 = dirGen)
              => /\ built[p].tables.sidTree = LoadedNoCache(sidFiles, yangFiles).sidTree
                 /\ built[p].tables.typeTable = LoadedNoCache(sidFiles, yangFiles).typeTable

\* C11 witness: a call read a cache file of another version, or a half-written
\* one, and is about to return rebuilt tables.
C11_Witness ==
  \E p \in Procs :
    /\ pc[p] = "done"
    /\ observed[p].exists
    /\ ~Usable(observed[p])
    /\ ~built[p].fromCache
    /\ \E q \in Procs : observed[q].exists /\ ~FileComplete(observed[q])

\* ---------------------------------------------------- claims on the resolver
\* The lookups of resolvePathToSid made so far.
PathLookups ==
  {l \in {lookups[i] : i \in 1..Len(lookups)} : l.fn = "resolvePathToSid"}

\* The lookup is mapped neither by its full prefixed path nor by its stripped one.
NotDirect(l) ==
  /\ ~MapHas(CodecTree.prefixedPathToSid, l.context \o l.arg)
  /\ ~MapHas(CodecTree.pathToSid, stripPrefixes(l.context \o l.arg))

\* The candidates leafToPaths holds for the last segment of the path.
LastSegmentCandidates(l) ==
  LET leaf == StripSeg(l.arg[Len(l.arg)])
  IN  IF MapHas(CodecTree.leafToPaths, leaf) THEN MapGet(CodecTree.leafToPaths, leaf)
      ELSE <<>>

\* C12 as claimed: a path of one or several segments that is not mapped directly
\* and whose last segment has exactly one candidate in leafToPaths resolves to
\* the SID of that candidate.
C12_AsClaimed ==
  \A l \in PathLookups :
    (NotDirect(l) /\ Len(LastSegmentCandidates(l)) = 1)
      => l.result = MapGet(CodecTree.pathToSid, LastSegmentCandidates(l)[1])

\* C12 amended: a path of one segment that is not mapped directly and whose
\* segment has exactly one candidate in leafToPaths resolves to the SID of that
\* candidate; a path of several segments that is not mapped directly resolves
\* to null, whatever leafToPaths holds for its last segment.
C12_SingleSegmentFuzzy ==
  \A l \in PathLookups :
    NotDirect(l)
      => /\ (Len(l.arg) = 1 /\ Len(LastSegmentCandidates(l)) = 1)
              => l.result = MapGet(CodecTree.pathToSid, LastSegmentCandidates(l)[1])
         /\ Len(l.arg) > 1 => l.result = Null

\* C12 witness: a path of one segment resolved through its only candidate, in a
\* context under which it is not mapped.
C12_Witness ==
  \E l \in PathLookups :
    /\ NotDirect(l)
    /\ Len(l.arg) = 1
    /\ l.context # <<>>
    /\ Len(LastSegmentCandidates(l)) = 1
    /\ l.result # Null

\* The number of leading segments the stripped context shares with a candidate.
SharedLeading(context, candidate) ==
  LET ctx == stripPrefixes(context)
      m == IF Len(ctx) < Len(candidate) THEN Len(ctx) ELSE Len(candidate)
  IN  CHOOSE n \in 0..m :
        /\ \A j \in 1..n : ctx[j] = candidate[j]
        /\ n = m \/ ctx[n + 1] # candidate[n + 1]

Unresolved(l) ==
  /\ NotDirect(l)
  /\ \/ Len(l.arg) # 1
     \/ ~MapHas(CodecTree.leafToPaths, StripSeg(l.arg[1]))

CanonicalPrefixed == MapKeys(BuildMergedSidTree(sidFiles).prefixedPathToSid)

\* C15 as claimed: every alias path a that augmentSidTreeWithAliases added to
\* prefixedPathToSid for a SID s has pathToSid[stripPrefixes(a)] = s.
C15_AliasInBothMaps ==
  \A tree \in ReturnedTrees : \A i \in 1..Len(tree.prefixedPathToSid) :
    LET a == tree.prefixedPathToSid[i][1]
        s == tree.prefixedPathToSid[i][2]
    IN  a \notin CanonicalPrefixed
          => /\ MapHas(tree.pathToSid, stripPrefixes(a))
             /\ MapGet(tree.pathToSid, stripPrefixes(a)) = s

\* C16: every further call of augmentSidTreeWithAliases on a tree it was applied
\* to, with whatever choice and case names, leaves every map of the tree as
\* loadYangInputs returned it.
C16_AugmentOnce ==
  CodecTree = LoadedNoCache(sidFiles, yangFiles).sidTree

\* C16 witness: a further call was made with names that would add an alias to
\* the tree if it were augmented afresh.
C16_Witness ==
  \E i \in 1..Len(lookups) :
    /\ lookups[i].fn = "augmentSidTreeWithAliases"
    /\ AugmentFrom(CodecTree, 1, NameSet(lookups[i].arg), NameSet(lookups[i].context))
         # CodecTree

\* C17: no lookup in the tree loadYangInputs returned, successful or not,
\* changes a map of the tree, and two lookups of the same function with the
\* same arguments return the same, whatever lookups ran in between.
C17_TreeReadOnly ==
  /\ CodecTree = LoadedNoCache(sidFiles, yangFiles).sidTree
  /\ \A i, j \in 1..Len(lookups) :
       (/\ lookups[i].fn = lookups[j].fn
        /\ lookups[i].arg = lookups[j].arg
        /\ lookups[i].context = lookups[j].context)
         => lookups[i].result = lookups[j].result

\* C17 witness: the same path was resolved twice with a failed lookup of another
\* function in between.
C17_Witness ==
  /\ Len(lookups) = 3
  /\ lookups[1].fn = "resolvePathToSid"
  /\ lookups[1].result # Null
  /\ lookups[2].fn = "resolveSidToPath"
  /\ lookups[2].result = <<>>
  /\ lookups[3].fn = "resolvePathToSid"
  /\ lookups[3].arg = lookups[1].arg
  /\ lookups[3].context = lookups[1].context


\* ------------------------------------------------------- claims on the CLI
FetchRan == cli.handler = "fetchCommand" /\ Len(cli.entries) >= 1

\* C18 as stated: whenever the query file gave N >= 1 entries, the finished
\* command has sent exactly one iFETCH request, with the first entry.
C18_AsClaimed ==
  (FetchRan /\ cli.stage = "exited")
    => cli.sent = <<[verb |-> "iFETCH", payload |-> cli.entries[1]]>>

\* C18: whenever the query file gave N >= 1 entries, fetchCommand sends at most
\* one iFETCH request, and exactly one once the transport has connected and
\* the device is ready; the query of the request is the first entry, and no
\* request carries one of the other N - 1 entries.
C18_SingleQuery ==
  FetchRan =>
    /\ cli.sent \in {<<>>, <<[verb |-> "iFETCH", payload |-> cli.entries[1]]>>}
    /\ (cli.stage = "exited" /\ cli.ready) => Len(cli.sent) = 1
    /\ ~cli.ready => cli.sent = <<>>

C18_Witness ==
  /\ FetchRan
  /\ Len(cli.entries) = MaxEntries
  /\ cli.entries[1] # cli.entries[2]
  /\ cli.stage = "exited"
  /\ Len(cli.sent) = 1

\* The command line asked for the Ethernet transport and gave the host.
EthInvocation ==
  /\ cli.stage # "start"
  /\ cli.options.transport = "eth"
  /\ ~Falsy(cli.options.host)

\* C19: a command line with --transport eth and --host is not rejected for its
\* transport, and fetch and patch then connect to the host and port given,
\* not to a serial device.
C19_EthernetUsable ==
  EthInvocation =>
    /\ cli.error # "Unknown transport type"
    /\ (cli.handler \in {"fetchCommand", "patchCommand"} /\ cli.target # NoTarget)
         => /\ cli.target.kind = "udp"
            /\ cli.target.host = cli.options.host
            /\ cli.target.port = cli.options.port

\* The commands of the README's feature table.
ReadmeCommands ==
  {"list", "checksum", "download", "encode", "decode", "fetch", "patch", "post", "get"}

\* The function the README's command is implemented by.
ReadmeHandler(command) ==
  IF command = "post" THEN "postCommand" ELSE HandlerOf(command)

\* C20: a command of the README given with its file (and accepted options) is
\* dispatched to its function, post to postCommand as fetch to fetchCommand and
\* patch to patchCommand; only a command outside the README ends in 'Unknown
\* command' with exit code 1.
C20_DocumentedDispatched ==
  cli.stage # "start" =>
    /\ cli.error = "Unknown command" => cli.options.command \notin ReadmeCommands
    /\ (/\ cli.options.command \in {"post", "fetch", "patch"}
        /\ ~Falsy(cli.options.file)
        /\ cli.error \notin {"Unknown transport type",
                             "--host is required when using WiFi transport"})
         => /\ cli.handler = ReadmeHandler(cli.options.command)
            /\ cli.file = cli.options.file

\* ---------------------------------------------- claims on the parent relation
RECURSIVE ReachesRoot(_, _, _)
\* From the node at path, parent SID -> sidToPath -> nodeInfo, at most fuel
\* times: a node without parent is reached.
ReachesRoot(tree, path, fuel) ==
  LET info == MapGet(tree.nodeInfo, path)
  IN  IF info.parent = Null THEN TRUE
      ELSE IF fuel = 0 THEN FALSE
      ELSE /\ MapHas(tree.sidToPath, info.parent)
           /\ MapHas(tree.nodeInfo, MapGet(tree.sidToPath, info.parent))
           /\ ReachesRoot(tree, MapGet(tree.sidToPath, info.parent), fuel - 1)

\* C24 as claimed: from every node of a returned tree the chain of parent SIDs
\* reaches a node without parent; a chain longer than the number of nodes has
\* a cycle.
C24_NoParentCycle ==
  \A tree \in ReturnedTrees : \A path \in MapKeys(tree.nodeInfo) :
    ReachesRoot(tree, path, Len(tree.nodeInfo))

\* ---------------------------------------------------- claims on the type table
\* nameToValue and valueToName are mutual inverses.
IsBijection(enum) ==
  /\ \A i \in 1..Len(enum.nameToValue) :
       /\ MapHas(enum.valueToName, enum.nameToValue[i][2])
       /\ MapGet(enum.valueToName, enum.nameToValue[i][2]) = enum.nameToValue[i][1]
  /\ \A i \in 1..Len(enum.valueToName) :
       /\ MapHas(enum.nameToValue, enum.valueToName[i][2])
       /\ MapGet(enum.nameToValue, enum.valueToName[i][2]) = enum.valueToName[i][1]

\* The TypeInfos of a type table: of its leaves and of its typedefs.
TypeInfos(typeTable) ==
  {typeTable.types[i][2] : i \in 1..Len(typeTable.types)}
    \cup {typeTable.typedefs[i][2] : i \in 1..Len(typeTable.typedefs)}

\* C25 as claimed: every enumeration TypeInfo of a returned type table carries a
\* bijection, the base typedefs merged from vendor typedefs and the leaf types
\* rewritten from them included.
C25_EnumBijection ==
  \A p \in Procs : \A j \in 1..Len(results[p]) :
    \A typeInfo \in TypeInfos(results[p][j].typeTable) :
      typeInfo.enum # NoEnum => IsBijection(typeInfo.enum)

\* --------------------------------------------- claims on the cache and changes
\* The tables but for the sentinel of augmentSidTreeWithAliases.
SameTables(t, u) ==
  /\ [t.sidTree EXCEPT !.aliasesAugmented = TRUE]
       = [u.sidTree EXCEPT !.aliasesAugmented = TRUE]
  /\ t.typeTable = u.typeTable

\* C28 as claimed: the tables a call takes from the cache, with no source file
\* changed since the call began, are the tables a rebuild from the files of the
\* directory gives: every change made before the call made it rebuild.
C28_CacheIsCurrent ==
  \A p \in Procs :
    (pc[p] = "done" /\ built[p].fromCache /\ built[p].gen0 = dirGen)
      => SameTables(built[p].tables,
                    BuildTables(BuildMergedSidTree(sidFiles), yangFiles))

\* ------------------------------------------------- claims on the device commands
\* The commands that open a transport to the device.
DeviceCommands == {"fetchCommand", "patchCommand", "postCommand"}

\* C26: a device command that has ended has no connected transport, and when
\* its connect had succeeded, disconnect was invoked (once) before it ended:
\* after a success, a waitForReady failure, a request error, a CoAP failure, a
\* decode or write failure.
C26_DisconnectedAtExit ==
  (cli.stage = "exited" /\ cli.handler \in DeviceCommands)
    => /\ ~cli.connected
       /\ cli.opened => cli.disconnects = 1
       /\ ~cli.opened => cli.disconnects = 0

\* A command ended by a waitForReady failure after its connect succeeded.
C26_Witness ==
  /\ cli.stage = "exited"
  /\ cli.handler \in DeviceCommands
  /\ cli.opened
  /\ cli.error = "device not ready"
  /\ cli.disconnects = 1

\* What fetchCommand and patchCommand throw before createTransport.
PrepareErrors ==
  FetchErrors \cup PatchErrors
    \cup {"extractSidsFromInstanceIdentifier failed", "No valid SIDs found"}

\* C27: in fetchCommand and patchCommand a request is sent only after connect
\* and waitForReady have both succeeded; a transport exists only when the
\* payload has been built; a command that failed in validation, table loading,
\* extraction or encoding has created no transport and opened no connection.
C27_RequestAfterReady ==
  cli.handler \in {"fetchCommand", "patchCommand"}
    => /\ cli.sent # <<>> => (cli.opened /\ cli.ready)
       /\ cli.transport # "none" => cli.query # NoQuery
       /\ cli.opened => cli.transport # "none"
       /\ cli.error \in PrepareErrors
            => (cli.transport = "none" /\ cli.target = NoTarget /\ ~cli.opened
                /\ cli.sent = <<>>)

\* A patch command that has sent its request.
C27_Witness ==
  /\ cli.handler = "patchCommand"
  /\ cli.opened
  /\ cli.ready
  /\ Len(cli.sent) = 1
  /\ cli.sent[1].verb = "iPATCH"

\* C30 as claimed: what fetchCommand hands to extractSidsFromInstanceIdentifier
\* is the sidTree of the result of loadYangInputs, never an absent value.
C30_HandedSidTree ==
  (cli.handler = "fetchCommand" /\ cli.handed # NoValue) => cli.handed = "sidTree"

\* The indexes of the items whose request was sent, in the order of sending.
SentIndexes == [k \in 1..Len(cli.sent) |-> cli.sent[k].payload.index]

Oks(outcomes) == Cardinality({i \in 1..Len(outcomes) : outcomes[i] = "ok"})

\* C29: when the loop of postCommand is over, successCount + failCount is the
\* number of items, successCount is the number of items that succeeded, the
\* command throws 'All POST operations failed' exactly when no item succeeded
\* and one failed, and with one success it ends without error.
C29_AllFailedOnly ==
  (cli.handler = "postCommand" /\ cli.stage = "exited" /\ cli.ready)
    => /\ cli.successCount + cli.failCount = Len(cli.items)
       /\ cli.successCount = Oks(cli.outcomes)
       /\ cli.error = "All POST operations failed"
            <=> (Oks(cli.outcomes) = 0 /\ Len(cli.outcomes) > Oks(cli.outcomes))
       /\ Oks(cli.outcomes) >= 1 => (cli.exit = 0 /\ cli.error = "")

\* One item succeeded, one failed, and the command ended without error.
C29_Witness ==
  /\ cli.handler = "postCommand"
  /\ cli.stage = "exited"
  /\ cli.outcomes = <<"ok", "CoAP failure">>
  /\ cli.successCount = 1
  /\ cli.failCount = 1
  /\ cli.exit = 0

\* ------------------------------------------------ claims on the parallel loads
\* The maps of a SID tree that the merge loop fills with Map.set.
SidMapNames ==
  {"pathToSid", "sidToPath", "prefixedPathToSid", "sidToPrefixedPath",
   "pathToPrefixed", "identityToSid", "sidToIdentity"}

\* The tree of the .sid file i of the directory alone.
FileTree(i) == buildSidTree(sidFiles[i].items)

\* The files that have the key k in their map m.
FilesWith(m, k) == {i \in 1..Len(sidFiles) : MapHas(FileTree(i)[m], k)}

\* The last file of the directory listing that has the key k in its map m.
LastWith(m, k) ==
  CHOOSE i \in FilesWith(m, k) : \A j \in FilesWith(m, k) : j <= i

\* The number of events of a kind among the first n events.
EventsBefore(kind, n) == Cardinality({j \in 1..(n - 1) : par.events[j] = kind})

\* C22: the merge of the SID trees starts only when every .sid file is parsed;
\* in each of its maps the merged tree has, for every key some file has, the
\* value of the last file in directory-listing order that has the key,
\* whatever the order in which the loads completed; the whole merged tree is
\* the tree of the files merged in listing order.
C22_LaterFileWins ==
  /\ \A n \in 1..Len(par.events) :
       par.events[n] = "merge sid" => EventsBefore("read sid", n) = Len(sidFiles)
  /\ par.stage \in {"yang", "done"}
       => /\ \A m \in SidMapNames :
               /\ MapKeys(par.sidTree[m])
                    = UNION {MapKeys(FileTree(i)[m]) : i \in 1..Len(sidFiles)}
               /\ \A k \in MapKeys(par.sidTree[m]) :
                    MapGet(par.sidTree[m], k) = MapGet(FileTree(LastWith(m, k))[m], k)
          /\ \A path \in MapKeys(par.sidTree.nodeInfo) :
               MapGet(par.sidTree.nodeInfo, path).sid = MapGet(par.sidTree.pathToSid, path)
          /\ par.sidTree = BuildMergedSidTree(sidFiles)

\* Two files give one path two SIDs, the later file was parsed first, and the
\* trees are merged.
C22_Witness ==
  /\ par.stage = "yang"
  /\ Len(par.parsed) >= 2
  /\ par.parsed[1] > par.parsed[2]
  /\ \E i, j \in 1..Len(sidFiles) : \E path \in MapKeys(FileTree(i).pathToSid) :
       /\ i < j
       /\ MapHas(FileTree(j).pathToSid, path)
       /\ MapGet(FileTree(i).pathToSid, path) # MapGet(FileTree(j).pathToSid, path)

\* C23 as claimed: every .sid and .yang file is read before the first merge, and
\* after the first merge no file is read until both tables are complete.
C23_ReadsBeforeMerges ==
  \A i, j \in 1..Len(par.events) :
    (i < j /\ par.events[i] \in {"merge sid", "merge yang"})
      => par.events[j] \notin {"read sid", "read yang"}
====
